---- MODULE Spec2Model ----
(***************************************************************************)
(* Model of the workload-operator Register controller                      *)
(* (RegisterReconciler.Reconcile and its helpers) and of the ArgoCD        *)
(* APIManager it drives.  One Reconcile invocation is a sequence of steps, *)
(* one per access to the entity store or to the remote API; the position   *)
(* of an invocation is the pc field of its frame, named after the source   *)
(* line of the access it is about to make.                                 *)
(***************************************************************************)
EXTENDS Integers, Sequences, FiniteSets, TLC

(***************************************************************************)
(* Bounds of the model.                                                    *)
(***************************************************************************)
MaxClock == 2

(***************************************************************************)
(* Constants of the program.                                               *)
(***************************************************************************)
registerCRFinalizer == "argocd.register.workload.com/finalizer"
NamespaceEnvVar == "ARGOCD_NAMESPACE"
SecretNameEnvVar == "ARGOCD_SECRET_NAME"
APIEndpointEnvVar == "ARGOAPI_ENDPOINT"
defaultSecretName == "argocd-secret"
defaultNamespace == "argocd"
defaultArgoAPIEndpoint == "https://argocd-api.example.com"
ConditionAvailable == "Available"
ConditionDegraded == "Degraded"
ConditionProgressing == "Progressing"
MockKubeConfig == "apiVersion: v1 kind: Config"
StatusOK == 200

(***************************************************************************)
(* The entities of the store.                                              *)
(***************************************************************************)
Keys == {[namespace |-> "mocks-register", name |-> "mocks-register"]}
ArgoSecretKey == [namespace |-> defaultNamespace, name |-> defaultSecretName]
SecretKeys == Keys \cup {ArgoSecretKey}

\* no request key: the reconciler's Log before the first Reconcile
NoKey == [namespace |-> "", name |-> ""]

NoTime == -1
NoData == [f \in {} |-> ""]
NoSecret == [present |-> FALSE, data |-> NoData]
KubeConfigs == {MockKubeConfig, "{not a kubeconfig"}
TokenFields == {"dG9rZW4tdGVzdA==", "%%%"}

KeyOf(obj) == [namespace |-> obj.namespace, name |-> obj.name]

\* clusterapiv1.Cluster: identity and control-plane endpoint
Cluster(k) ==
    [name |-> k.name, namespace |-> k.namespace, host |-> "Host", port |-> 80]

\* the zero value of &clusterapiv1.Cluster{}
EmptyCluster == [name |-> "", namespace |-> "", host |-> "", port |-> 0]

\* the zero value of &argocdv1beta1.Register{}
EmptyRegister ==
    [name |-> "", namespace |-> "", ownerReferences |-> {},
     deletionTimestamp |-> NoTime, finalizers |-> {}, conditions |-> <<>>]

\* metav1.Condition as the controller builds it (LastTransitionTime zero)
Condition(type, status, reason, message) ==
    [type |-> type, status |-> status, reason |-> reason,
     message |-> message, lastTransitionTime |-> NoTime]

(***************************************************************************)
(* meta.SetStatusCondition, as called by the controller.                   *)
(***************************************************************************)
FindStatusCondition(conditions, type) ==
    IF \E i \in 1..Len(conditions) : conditions[i].type = type
    THEN CHOOSE i \in 1..Len(conditions) :
            /\ conditions[i].type = type
            /\ \A j \in 1..(i - 1) : conditions[j].type # type
    ELSE 0

\* SetStatusCondition that never moves the time of an entry it finds
SetStatusCondition_KeepTime(conditions, newCondition, t) ==
    LET i == FindStatusCondition(conditions, newCondition.type) IN
    IF i = 0
    THEN Append(conditions, [newCondition EXCEPT !.lastTransitionTime = t])
    ELSE [conditions EXCEPT ![i] =
            [newCondition EXCEPT
                !.lastTransitionTime = conditions[i].lastTransitionTime]]

\* SetStatusCondition that stamps the time at every call
SetStatusCondition_Stamp(conditions, newCondition, t) ==
    LET i == FindStatusCondition(conditions, newCondition.type) IN
    IF i = 0
    THEN Append(conditions, [newCondition EXCEPT !.lastTransitionTime = t])
    ELSE [conditions EXCEPT ![i] =
            [newCondition EXCEPT !.lastTransitionTime = t]]

\* SetStatusCondition that appends without looking for the type
SetStatusCondition_Append(conditions, newCondition, t) ==
    Append(conditions, [newCondition EXCEPT !.lastTransitionTime = t])

\* SetStatusCondition that puts a new type first instead of last
SetStatusCondition_Prepend(conditions, newCondition, t) ==
    LET i == FindStatusCondition(conditions, newCondition.type) IN
    IF i = 0
    THEN <<[newCondition EXCEPT !.lastTransitionTime = t]>> \o conditions
    ELSE [conditions EXCEPT ![i] =
            [type |-> @.type,
             status |-> newCondition.status,
             reason |-> newCondition.reason,
             message |-> newCondition.message,
             lastTransitionTime |->
                IF @.status # newCondition.status THEN t
                ELSE @.lastTransitionTime]]

\* SetStatusCondition that removes the entry it finds and appends the new one
SetStatusCondition_MoveLast(conditions, newCondition, t) ==
    LET i == FindStatusCondition(conditions, newCondition.type) IN
    IF i = 0
    THEN Append(conditions, [newCondition EXCEPT !.lastTransitionTime = t])
    ELSE Append(SubSeq(conditions, 1, i - 1)
                    \o SubSeq(conditions, i + 1, Len(conditions)),
                [newCondition EXCEPT
                    !.lastTransitionTime =
                        IF conditions[i].status # newCondition.status THEN t
                        ELSE conditions[i].lastTransitionTime])

SetStatusCondition(conditions, newCondition, t) ==
    LET i == FindStatusCondition(conditions, newCondition.type) IN
    IF i = 0
    THEN Append(conditions, [newCondition EXCEPT !.lastTransitionTime = t])
    ELSE [conditions EXCEPT ![i] =
            [type |-> @.type,
             status |-> newCondition.status,
             reason |-> newCondition.reason,
             message |-> newCondition.message,
             lastTransitionTime |->
                IF @.status # newCondition.status THEN t
                ELSE @.lastTransitionTime]]

ContainsFinalizer(obj, f) == f \in obj.finalizers

(***************************************************************************)
(* The environment of the manager process: the variables that are set,     *)
(* with their values (os.LookupEnv).                                       *)
(***************************************************************************)
VARIABLE env

LookupEnv(name) ==
    IF name \in DOMAIN env THEN [value |-> env[name], exists |-> TRUE]
    ELSE [value |-> "", exists |-> FALSE]

\* the namespace taken from the default whatever the environment
argocdNamespace_Default == defaultNamespace

argocdNamespace ==
    IF LookupEnv(NamespaceEnvVar).exists THEN LookupEnv(NamespaceEnvVar).value
    ELSE defaultNamespace

argocdSecretName ==
    IF LookupEnv(SecretNameEnvVar).exists THEN LookupEnv(SecretNameEnvVar).value
    ELSE defaultSecretName

argoAPIEndpoint ==
    IF LookupEnv(APIEndpointEnvVar).exists THEN LookupEnv(APIEndpointEnvVar).value
    ELSE defaultArgoAPIEndpoint

(***************************************************************************)
(* The ArgoCD APIManager.  Its client is the Secret store it reads.        *)
(***************************************************************************)
Digit(d) ==
    CASE d = 0 -> "0" [] d = 1 -> "1" [] d = 2 -> "2" [] d = 3 -> "3"
      [] d = 4 -> "4" [] d = 5 -> "5" [] d = 6 -> "6" [] d = 7 -> "7"
      [] d = 8 -> "8" [] d = 9 -> "9"

RECURSIVE Itoa(_)
Itoa(n) ==
    IF n < 0 THEN "-" \o Itoa(-n)
    ELSE IF n < 10 THEN Digit(n)
    ELSE Itoa(n \div 10) \o Digit(n % 10)

\* base64.StdEncoding.DecodeString on the values a token field takes here
Base64Decode(s) ==
    IF s = "dG9rZW4tdGVzdA==" THEN [err |-> "nil", value |-> "token-test"]
    ELSE IF s = "dG9r" THEN [err |-> "nil", value |-> "tok"]
    ELSE [err |-> "illegal base64 data at input byte 0", value |-> ""]

\* clientcmd.Load succeeds on a structurally valid kubeconfig
KubeConfigLoads(kubeConfig) == kubeConfig = MockKubeConfig

\* a.Client.Get of the Secret at the configured namespace and name
GetTokenSecret(client) ==
    LET key == [namespace |-> argocdNamespace, name |-> argocdSecretName] IN
    IF key \in DOMAIN client THEN client[key] ELSE NoSecret

\* setBareToken that takes the field for the token without decoding it
setBareToken_Raw(client) ==
    LET secret == GetTokenSecret(client) IN
    IF ~secret.present
    THEN [err |-> "error fetching secret: NotFound", token |-> ""]
    ELSE IF "admin.password" \notin DOMAIN secret.data
    THEN [err |-> "admin.password not found in secret", token |-> ""]
    ELSE [err |-> "nil", token |-> secret.data["admin.password"]]

setBareToken(client) ==
    LET secret == GetTokenSecret(client) IN
    IF ~secret.present
    THEN [err |-> "error fetching secret: NotFound", token |-> ""]
    ELSE IF "admin.password" \notin DOMAIN secret.data
    THEN [err |-> "admin.password not found in secret", token |-> ""]
    ELSE LET d == Base64Decode(secret.data["admin.password"]) IN
         [err |-> d.err, token |-> d.value]

\* NewAPIManagerWithCluster that leaves the port out of Server
NewAPIManagerWithCluster_HostOnly(clusterAPI, kubeConfig, client) ==
    LET t == setBareToken(client) IN
    [err |-> t.err,
     mgr |-> [Server |-> clusterAPI.host,
              Name |-> clusterAPI.name,
              KubeConfig |-> kubeConfig,
              Endpoint |-> argoAPIEndpoint,
              Token |-> t.token]]

NewAPIManagerWithCluster(clusterAPI, kubeConfig, client) ==
    LET t == setBareToken(client) IN
    [err |-> t.err,
     mgr |-> [Server |-> clusterAPI.host \o ":" \o Itoa(clusterAPI.port),
              Name |-> clusterAPI.name,
              KubeConfig |-> kubeConfig,
              Endpoint |-> argoAPIEndpoint,
              Token |-> t.token]]

NoManager ==
    [Server |-> "", Name |-> "", KubeConfig |-> "", Endpoint |-> "", Token |-> ""]

ValidateKubeConfigForClusterAPI(mgr) ==
    IF KubeConfigLoads(mgr.KubeConfig) THEN "nil"
    ELSE "error loading kubeconfig: invalid"

\* the answers the remote API (or the transport) can give to the POST
Responses ==
    {[transport |-> "nil", code |-> 200, status |-> "200 OK"],
     [transport |-> "nil", code |-> 500, status |-> "500 Internal Server Error"],
     [transport |-> "dial tcp: timeout", code |-> 0, status |-> ""]}

\* no request was sent, so there is no answer
NoResponse == [transport |-> "nil", code |-> 0, status |-> ""]

\* RegisterCluster that takes every 2xx answer for a success
RegisterCluster_Any2xx(mgr, resp) ==
    IF ValidateKubeConfigForClusterAPI(mgr) # "nil"
    THEN ValidateKubeConfigForClusterAPI(mgr)
    ELSE IF resp.transport # "nil"
    THEN "error sending request: " \o resp.transport
    ELSE IF resp.code < 200 \/ resp.code > 299
    THEN "error registering cluster, status: " \o resp.status
    ELSE "nil"

\* RegisterCluster: the error it returns when the remote answers resp
RegisterCluster(mgr, resp) ==
    IF ValidateKubeConfigForClusterAPI(mgr) # "nil"
    THEN ValidateKubeConfigForClusterAPI(mgr)
    ELSE IF resp.transport # "nil"
    THEN "error sending request: " \o resp.transport
    ELSE IF resp.code # StatusOK
    THEN "error registering cluster, status: " \o resp.status
    ELSE "nil"

\* RegisterCluster that sends the POST without validating first
RegisterSendsRequest_Always(mgr) == TRUE

\* whether RegisterCluster sends the POST at all
RegisterSendsRequest(mgr) == ValidateKubeConfigForClusterAPI(mgr) = "nil"

\* json.Marshal of a []byte value: the bytes as base64 text
Base64Encode(bytes) ==
    IF bytes = MockKubeConfig THEN "YXBpVmVyc2lvbjogdjEga2luZDogQ29uZmln"
    ELSE IF bytes = "{not a kubeconfig" THEN "e25vdCBhIGt1YmVjb25maWc="
    ELSE ""

\* no request was sent
NoRequest ==
    [method |-> "", url |-> "", header |-> <<>>, body |-> <<>>]

\* RegisterCluster whose Authorization header carries no token
RegisterRequest_AnonymousHeader(mgr) ==
    [method |-> "POST",
     url |-> mgr.Endpoint \o "/api/v1/clusters",
     header |-> ("Content-Type" :> "application/json")
                @@ ("Authorization" :> "Bearer "),
     body |-> [server |-> mgr.Server,
               name |-> mgr.Name,
               kubeconfig |-> Base64Encode(mgr.KubeConfig),
               config |-> [bearerToken |-> mgr.Token]]]

\* RegisterCluster lines 158-179: the request it builds and sends
RegisterRequest(mgr) ==
    [method |-> "POST",
     url |-> mgr.Endpoint \o "/api/v1/clusters",
     header |-> ("Content-Type" :> "application/json")
                @@ ("Authorization" :> "Bearer " \o mgr.Token),
     body |-> [server |-> mgr.Server,
               name |-> mgr.Name,
               kubeconfig |-> Base64Encode(mgr.KubeConfig),
               config |-> [bearerToken |-> mgr.Token]]]

\* an IsClusterRegistered that reports the cluster as registered
IsClusterRegistered_Registered == [registered |-> TRUE, err |-> "nil"]

\* IsClusterRegistered, argocd.go lines 204-208: always (false, nil)
IsClusterRegistered == [registered |-> FALSE, err |-> "nil"]

UnRegisterCluster == "nil"

(***************************************************************************)
(* State.                                                                  *)
(*   clusters      the Cluster objects in the store                        *)
(*   secrets       the Secret objects in the store, by namespaced name     *)
(*   registers     the Register objects in the store                       *)
(*   now           the wall clock (time.Now())                             *)
(*   directClient  how r.Client decodes: a direct API client unmarshals a  *)
(*                 response into the object it is given and keeps the      *)
(*                 fields the response omits; the manager's cache-backed   *)
(*                 client overwrites the object                            *)
(*   hasRecorder   whether the reconciler was built with an EventRecorder  *)
(*   env           the environment variables of the process (see above)    *)
(*   inv           per key, the frame of the Reconcile invocation; resp is *)
(*                 the answer RegisterCluster got to its POST              *)
(*   prev          per key, what the previous invocation did               *)
(*   Log           the reconciler's Log field: the key of the invocation   *)
(*                 whose logger was stored in it last (line 108)           *)
(***************************************************************************)
VARIABLES clusters, secrets, registers, now, directClient, hasRecorder, inv, prev,
          Log

store == <<clusters, secrets, registers>>
config == <<directClient, hasRecorder, env>>
vars ==
    <<clusters, secrets, registers, now, directClient, hasRecorder, env, inv, prev,
      Log>>

Ev(op, target, err, note) == [op |-> op, target |-> target, err |-> err, note |-> note]

Stored(k) == {r \in registers : KeyOf(r) = k}

\* r.Get(ctx, req.NamespacedName, clusterAPI)
GetCluster(k) ==
    IF \E c \in clusters : KeyOf(c) = k
    THEN [err |-> "nil", obj |-> CHOOSE c \in clusters : KeyOf(c) = k]
    ELSE [err |-> "NotFound", obj |-> EmptyCluster]

\* r.Get(ctx, req.NamespacedName, RegisterCR)
GetRegister(k) ==
    IF Stored(k) # {}
    THEN [err |-> "nil", obj |-> CHOOSE r \in Stored(k) : TRUE]
    ELSE [err |-> "NotFound", obj |-> EmptyRegister]

\* decoding the stored object got into the caller's object local
Into(local, got) ==
    IF ~directClient THEN got
    ELSE [name |-> got.name,
          namespace |-> got.namespace,
          ownerReferences |->
             IF got.ownerReferences = {} THEN local.ownerReferences
             ELSE got.ownerReferences,
          deletionTimestamp |->
             IF got.deletionTimestamp = NoTime THEN local.deletionTimestamp
             ELSE got.deletionTimestamp,
          finalizers |->
             IF got.finalizers = {} THEN local.finalizers ELSE got.finalizers,
          conditions |->
             IF got.conditions = <<>> THEN local.conditions ELSE got.conditions]

\* r.Update: the status subresource is enabled, so the stored status stays
UpdatedObject(old, local) ==
    [old EXCEPT !.ownerReferences = local.ownerReferences,
                !.deletionTimestamp = local.deletionTimestamp,
                !.finalizers = local.finalizers]

\* r.Status().Update: only the status is written
StatusUpdatedObject(old, local) ==
    [old EXCEPT !.conditions = local.conditions]

Replace(k, obj) == (registers \ Stored(k)) \cup {obj}

IdleFrame ==
    [pc |-> "idle", clusterAPI |-> EmptyCluster, RegisterCR |-> EmptyRegister,
     kubeconfig |-> "", mgr |-> NoManager, err |-> "nil", result |-> "none",
     resp |-> NoResponse, request |-> NoRequest, logger |-> NoKey,
     log |-> <<>>,
     start |-> [cluster |-> FALSE, register |-> FALSE, obj |-> EmptyRegister]]

Init ==
    /\ clusters = {}
    /\ secrets = [sk \in SecretKeys |-> NoSecret]
    /\ registers = {}
    /\ now = 0
    /\ directClient \in BOOLEAN
    /\ hasRecorder = TRUE
    /\ env = NoData
    /\ Log = NoKey
    /\ inv = [k \in Keys |-> IdleFrame]
    /\ prev = [k \in Keys |-> "none"]

Quiescent == \A k \in Keys : inv[k].pc = "idle"

(***************************************************************************)
(* The environment: the provisioning process, users and the clock.         *)
(***************************************************************************)
CreateCluster(k) ==
    /\ GetCluster(k).err = "NotFound"
    /\ clusters' = clusters \cup {Cluster(k)}
    /\ UNCHANGED <<secrets, registers, now, config, Log, inv, prev>>

DeleteCluster(k) ==
    /\ GetCluster(k).err = "nil"
    /\ clusters' = clusters \ {GetCluster(k).obj}
    /\ UNCHANGED <<secrets, registers, now, config, Log, inv, prev>>

SecretData(sk) ==
    IF sk = ArgoSecretKey
    THEN {NoData} \cup {("admin.password" :> t) : t \in TokenFields}
    ELSE {NoData} \cup {("kubeconfig" :> c) : c \in KubeConfigs}

ApplySecret(sk) ==
    \E d \in SecretData(sk) :
        /\ secrets[sk] # [present |-> TRUE, data |-> d]
        /\ secrets' = [secrets EXCEPT ![sk] = [present |-> TRUE, data |-> d]]
        /\ UNCHANGED <<clusters, registers, now, config, Log, inv, prev>>

DeleteSecret(sk) ==
    /\ secrets[sk].present
    /\ secrets' = [secrets EXCEPT ![sk] = NoSecret]
    /\ UNCHANGED <<clusters, registers, now, config, Log, inv, prev>>

Tick ==
    /\ now < MaxClock
    /\ now' = now + 1
    /\ UNCHANGED <<store, config, Log, inv, prev>>

\* a user or another controller puts the finalizer on the Register
AddFinalizer(k) ==
    /\ GetRegister(k).err = "nil"
    /\ GetRegister(k).obj.deletionTimestamp = NoTime
    /\ registerCRFinalizer \notin GetRegister(k).obj.finalizers
    /\ registers' = Replace(k, [GetRegister(k).obj EXCEPT
                                  !.finalizers = @ \cup {registerCRFinalizer}])
    /\ UNCHANGED <<clusters, secrets, now, config, Log, inv, prev>>

\* a delete request on the Register: marked while finalizers hold it
DeleteRegister(k) ==
    /\ GetRegister(k).err = "nil"
    /\ GetRegister(k).obj.deletionTimestamp = NoTime
    /\ registers' =
         IF GetRegister(k).obj.finalizers = {} THEN registers \ Stored(k)
         ELSE Replace(k, [GetRegister(k).obj EXCEPT !.deletionTimestamp = now])
    /\ UNCHANGED <<clusters, secrets, now, config, Log, inv, prev>>

\* the store removes a marked Register that no finalizer holds
CollectRegister(k) ==
    /\ GetRegister(k).err = "nil"
    /\ GetRegister(k).obj.deletionTimestamp # NoTime
    /\ GetRegister(k).obj.finalizers = {}
    /\ registers' = registers \ Stored(k)
    /\ UNCHANGED <<clusters, secrets, now, config, Log, inv, prev>>

Environment ==
    \/ \E k \in Keys : Quiescent /\ CreateCluster(k)
    \/ \E k \in Keys : Quiescent /\ DeleteCluster(k)
    \/ \E sk \in SecretKeys : Quiescent /\ ApplySecret(sk)
    \/ \E sk \in SecretKeys : Quiescent /\ DeleteSecret(sk)
    \/ Quiescent /\ Tick
    \/ \E k \in Keys : Quiescent /\ AddFinalizer(k)
    \/ \E k \in Keys : Quiescent /\ DeleteRegister(k)
    \/ \E k \in Keys : Quiescent /\ CollectRegister(k)

(***************************************************************************)
(* Writes to the store, with the error the client returns and the object   *)
(* the client hands back to the caller.                                    *)
(***************************************************************************)
\* r.Client.Create(ctx, newRegister)
Create(obj) ==
    IF obj.name = "" THEN [err |-> "Invalid", registers |-> registers]
    ELSE IF Stored(KeyOf(obj)) # {}
    THEN [err |-> "AlreadyExists", registers |-> registers]
    ELSE [err |-> "nil",
          registers |-> registers \cup {[obj EXCEPT !.conditions = <<>>]}]

\* r.Update(ctx, RegisterCR)
Update(k, local) ==
    IF Stored(k) = {}
    THEN [err |-> "NotFound", registers |-> registers, obj |-> local]
    ELSE LET o == UpdatedObject(GetRegister(k).obj, local) IN
         [err |-> "nil", registers |-> Replace(k, o), obj |-> Into(local, o)]

\* r.Status().Update(ctx, RegisterCR)
StatusUpdate(k, local) ==
    IF Stored(k) = {}
    THEN [err |-> "NotFound", registers |-> registers, obj |-> local]
    ELSE LET o == StatusUpdatedObject(GetRegister(k).obj, local) IN
         [err |-> "nil", registers |-> Replace(k, o), obj |-> Into(local, o)]

(***************************************************************************)
(* Frames of a Reconcile invocation.                                       *)
(***************************************************************************)
Logged(fr, ev) == [fr EXCEPT !.log = Append(@, ev)]

\* return ctrl.Result{}, err
Return(fr, err) == [fr EXCEPT !.pc = "done", !.result = err]

WithCondition(fr, c) ==
    [fr EXCEPT !.RegisterCR.conditions = SetStatusCondition(@, c, now)]

\* the frame at entry: fresh objects, and what the store held at that time
StartFrame(k) ==
    [IdleFrame EXCEPT
        !.start = [cluster |-> GetCluster(k).err = "nil",
                   register |-> GetRegister(k).err = "nil",
                   obj |-> GetRegister(k).obj]]

\* generateRegisterCR without the SetOwnerReference call
generateRegisterCR_NoOwner(clusterAPI) ==
    [EmptyRegister EXCEPT
        !.name = clusterAPI.name,
        !.namespace = clusterAPI.namespace]

\* generateRegisterCR: name, namespace and owner reference from the Cluster
generateRegisterCR(clusterAPI) ==
    [EmptyRegister EXCEPT
        !.name = clusterAPI.name,
        !.namespace = clusterAPI.namespace,
        !.ownerReferences = {[kind |-> "Cluster", name |-> clusterAPI.name]}]

(***************************************************************************)
(* Reconcile, lines 107-179.                                               *)
(***************************************************************************)
\* Reconcile that returns every error of the Cluster fetch, NotFound too
Reconcile_ReturnsNotFound(k) ==
    /\ inv[k].pc = "idle"
    /\ LET g == GetCluster(k)
           fr == Logged(StartFrame(k), Ev("Get", "Cluster", g.err, "")) IN
       inv' = [inv EXCEPT ![k] =
                 IF g.err = "nil"
                 THEN [fr EXCEPT !.clusterAPI = g.obj, !.pc = "L142"]
                 ELSE Return(fr, g.err)]
    /\ Log' = k
    /\ UNCHANGED <<store, now, config, prev>>

\* lines 108-112: store the invocation's logger in r.Log, fetch the Cluster
Reconcile(k) ==
    /\ inv[k].pc = "idle"
    /\ LET g == GetCluster(k)
           fr == Logged(StartFrame(k), Ev("Get", "Cluster", g.err, "")) IN
       inv' = [inv EXCEPT ![k] =
                 IF g.err = "nil"
                 THEN [fr EXCEPT !.clusterAPI = g.obj, !.pc = "L142"]
                 ELSE [fr EXCEPT !.pc = "L120"]]
    /\ Log' = k
    /\ UNCHANGED <<store, now, config, prev>>

\* marking without the isMarkedToBeDeleted test
GetRegisterOfDeletedCluster_AlwaysMarks(k) ==
    /\ inv[k].pc = "L120"
    /\ LET g == GetRegister(k)
           fr == Logged(inv[k], Ev("Get", "Register", g.err, ""))
           local == Into(fr.RegisterCR, g.obj) IN
       inv' = [inv EXCEPT ![k] =
                 IF g.err # "nil" THEN Return(fr, "nil")
                 ELSE [fr EXCEPT !.RegisterCR =
                                    [local EXCEPT !.deletionTimestamp = now],
                                 !.pc = "L133"]]
    /\ UNCHANGED <<store, now, config, Log, prev>>

\* lines 120-132: the Cluster is gone; fetch the Register and mark it
GetRegisterOfDeletedCluster(k) ==
    /\ inv[k].pc = "L120"
    /\ LET g == GetRegister(k)
           fr == Logged(inv[k], Ev("Get", "Register", g.err, ""))
           local == Into(fr.RegisterCR, g.obj) IN
       inv' = [inv EXCEPT ![k] =
                 IF g.err # "nil" THEN Return(fr, "nil")
                 ELSE IF local.deletionTimestamp = NoTime
                 THEN [fr EXCEPT !.RegisterCR =
                                    [local EXCEPT !.deletionTimestamp = now],
                                 !.pc = "L133"]
                 ELSE [fr EXCEPT !.RegisterCR = local, !.pc = "L142"]]
    /\ UNCHANGED <<store, now, config, Log, prev>>

\* line 133: write the deletion timestamp
SetDeletionTimestamp(k) ==
    /\ inv[k].pc = "L133"
    /\ LET w == Update(k, inv[k].RegisterCR)
           fr == Logged([inv[k] EXCEPT !.RegisterCR = w.obj],
                        Ev("Update", "Register", w.err, "SetDeletionTimestamp")) IN
       /\ registers' = w.registers
       /\ inv' = [inv EXCEPT ![k] =
                    IF w.err # "nil" THEN Return(fr, w.err)
                    ELSE [fr EXCEPT !.pc = "L142"]]
    /\ UNCHANGED <<clusters, secrets, now, config, Log, prev>>

\* line 142: check whether the Register exists
GetRegisterOrCreate(k) ==
    /\ inv[k].pc = "L142"
    /\ LET g == GetRegister(k)
           fr == Logged(inv[k], Ev("Get", "Register", g.err, "")) IN
       inv' = [inv EXCEPT ![k] =
                 IF g.err = "nil"
                 THEN [fr EXCEPT !.RegisterCR = Into(fr.RegisterCR, g.obj),
                                 !.pc = "L183"]
                 ELSE [fr EXCEPT !.pc = "L147"]]
    /\ UNCHANGED <<store, now, config, Log, prev>>

\* lines 147, 262-280: createRegisterCR
createRegisterCR(k) ==
    /\ inv[k].pc = "L147"
    /\ LET newRegister == generateRegisterCR(inv[k].clusterAPI)
           w == Create(newRegister)
           fr == Logged(WithCondition(inv[k],
                            Condition(ConditionProgressing, "True",
                                "Creating Register",
                                "Preparing to Register Cluster with ArgoCD")),
                        Ev("Create", "Register", w.err, "")) IN
       /\ registers' = w.registers
       /\ inv' = [inv EXCEPT ![k] =
                    IF w.err # "nil"
                    THEN Return(fr, "failed to create Register CR: " \o w.err)
                    ELSE [fr EXCEPT !.pc = "L151"]]
    /\ UNCHANGED <<clusters, secrets, now, config, Log, prev>>

\* line 151: fetch the Register just created
GetCreatedRegister(k) ==
    /\ inv[k].pc = "L151"
    /\ LET g == GetRegister(k)
           fr == Logged(inv[k], Ev("Get", "Register", g.err, "")) IN
       inv' = [inv EXCEPT ![k] =
                 IF g.err # "nil" THEN Return(fr, g.err)
                 ELSE [fr EXCEPT !.RegisterCR = Into(fr.RegisterCR, g.obj),
                                 !.pc = "L183"]]
    /\ UNCHANGED <<store, now, config, Log, prev>>

(***************************************************************************)
(* handleIntegrationWithArgoCDAPI, lines 181-217.                          *)
(***************************************************************************)
\* a getClusterKubeConfigFromSecret that deletes the Secret once it is read
getClusterKubeConfigFromSecret_Consumes(k) ==
    /\ inv[k].pc = "L183"
    /\ LET secret == secrets[k]
           err == IF ~secret.present THEN "NotFound"
                  ELSE IF "kubeconfig" \notin DOMAIN secret.data
                  THEN "kubeconfig not found in secret"
                  ELSE "nil"
           fr == Logged(inv[k], Ev("Get", "Secret", err, "kubeconfig")) IN
       /\ inv' = [inv EXCEPT ![k] =
                    IF err # "nil" THEN [fr EXCEPT !.err = err, !.pc = "L186"]
                    ELSE [fr EXCEPT !.kubeconfig = secret.data["kubeconfig"],
                                    !.pc = "L201"]]
       /\ secrets' = [secrets EXCEPT ![k] = NoSecret]
    /\ UNCHANGED <<clusters, registers, now, config, Log, prev>>

\* lines 183, 355-368: the kubeconfig held by the Secret of the request key
getClusterKubeConfigFromSecret(k) ==
    /\ inv[k].pc = "L183"
    /\ LET secret == secrets[k]
           err == IF ~secret.present THEN "NotFound"
                  ELSE IF "kubeconfig" \notin DOMAIN secret.data
                  THEN "kubeconfig not found in secret"
                  ELSE "nil"
           fr == Logged(inv[k], Ev("Get", "Secret", err, "kubeconfig")) IN
       inv' = [inv EXCEPT ![k] =
                 IF err # "nil" THEN [fr EXCEPT !.err = err, !.pc = "L186"]
                 ELSE [fr EXCEPT !.kubeconfig = secret.data["kubeconfig"],
                                 !.pc = "L201"]]
    /\ UNCHANGED <<store, now, config, Log, prev>>

\* lines 186-192: re-fetch the Register and set Degraded
KubeConfigErrorGet(k) ==
    /\ inv[k].pc = "L186"
    /\ LET g == GetRegister(k)
           fr == Logged(inv[k], Ev("Get", "Register", g.err, "")) IN
       inv' = [inv EXCEPT ![k] =
                 IF g.err # "nil" THEN Return(fr, g.err)
                 ELSE [WithCondition(
                          [fr EXCEPT !.RegisterCR = Into(fr.RegisterCR, g.obj)],
                          Condition(ConditionDegraded, "True", "Error",
                              "Unable to gathering kubeConfig: " \o fr.err))
                       EXCEPT !.pc = "L193"]]
    /\ UNCHANGED <<store, now, config, Log, prev>>

\* the kubeconfig error path ending in "return nil, nil"
KubeConfigErrorStatus_ReturnsNil(k) ==
    /\ inv[k].pc = "L193"
    /\ LET w == StatusUpdate(k, inv[k].RegisterCR)
           fr == Logged([inv[k] EXCEPT !.RegisterCR = w.obj],
                        Ev("StatusUpdate", "Register", w.err, "Degraded")) IN
       /\ registers' = w.registers
       /\ inv' = [inv EXCEPT ![k] =
                    IF w.err # "nil" THEN Return(fr, w.err)
                    ELSE Return(fr, "nil")]
    /\ UNCHANGED <<clusters, secrets, now, config, Log, prev>>

\* lines 193-197: write the status and return the kubeconfig error
KubeConfigErrorStatus(k) ==
    /\ inv[k].pc = "L193"
    /\ LET w == StatusUpdate(k, inv[k].RegisterCR)
           fr == Logged([inv[k] EXCEPT !.RegisterCR = w.obj],
                        Ev("StatusUpdate", "Register", w.err, "Degraded")) IN
       /\ registers' = w.registers
       /\ inv' = [inv EXCEPT ![k] =
                    IF w.err # "nil" THEN Return(fr, w.err)
                    ELSE Return(fr, fr.err)]
    /\ UNCHANGED <<clusters, secrets, now, config, Log, prev>>

\* the loggers a read of r.Log can yield.  The field is written by every
\* invocation (line 108) and read without synchronisation: the read yields
\* the logger stored last, or the one this invocation stored itself, or the
\* one stored by an invocation that is running at the same time
LogRead(k) ==
    {Log, k} \cup {k2 \in DOMAIN inv : inv[k2].pc \notin {"idle", "done"}}

\* line 201: build the APIManager, which reads the token Secret; the
\* manager is handed r.Log
handleIntegrationWithArgoCDAPI(k) ==
    /\ inv[k].pc = "L201"
    /\ \E l \in LogRead(k) :
         LET m == NewAPIManagerWithCluster(inv[k].clusterAPI, inv[k].kubeconfig,
                                           secrets)
             fr == Logged([inv[k] EXCEPT !.mgr = m.mgr, !.err = m.err,
                                         !.logger = l],
                          Ev("Get", "Secret", m.err, "token")) IN
         inv' = [inv EXCEPT ![k] =
                   IF m.err # "nil" THEN [fr EXCEPT !.pc = "L204"]
                   ELSE [fr EXCEPT !.pc = "L165"]]
    /\ UNCHANGED <<store, now, config, Log, prev>>

\* lines 204-210: re-fetch the Register and set Degraded
TokenErrorGet(k) ==
    /\ inv[k].pc = "L204"
    /\ LET g == GetRegister(k)
           fr == Logged(inv[k], Ev("Get", "Register", g.err, "")) IN
       inv' = [inv EXCEPT ![k] =
                 IF g.err # "nil" THEN Return(fr, g.err)
                 ELSE [WithCondition(
                          [fr EXCEPT !.RegisterCR = Into(fr.RegisterCR, g.obj)],
                          Condition(ConditionDegraded, "True", "Error",
                              "Unable to gathering pre-requirements to connect with ArgoCD: "
                                  \o fr.err))
                       EXCEPT !.pc = "L211"]]
    /\ UNCHANGED <<store, now, config, Log, prev>>

\* lines 211-216: write the status; line 216 then returns the manager and nil
TokenErrorStatus(k) ==
    /\ inv[k].pc = "L211"
    /\ LET w == StatusUpdate(k, inv[k].RegisterCR)
           fr == Logged([inv[k] EXCEPT !.RegisterCR = w.obj],
                        Ev("StatusUpdate", "Register", w.err, "Degraded")) IN
       /\ registers' = w.registers
       /\ inv' = [inv EXCEPT ![k] =
                    IF w.err # "nil" THEN Return(fr, w.err)
                    ELSE [fr EXCEPT !.pc = "L165"]]
    /\ UNCHANGED <<clusters, secrets, now, config, Log, prev>>

(***************************************************************************)
(* Reconcile, lines 164-178: finalize a marked Register, register the      *)
(* Cluster otherwise.                                                      *)
(***************************************************************************)
Dispatch(k) ==
    /\ inv[k].pc = "L165"
    /\ inv' = [inv EXCEPT ![k] =
                 IF inv[k].RegisterCR.deletionTimestamp # NoTime
                 THEN IF ContainsFinalizer(inv[k].RegisterCR, registerCRFinalizer)
                      THEN [WithCondition(inv[k],
                               Condition(ConditionDegraded, "True", "Finalizing",
                                   "Performing finalizer operations to delete Register"))
                            EXCEPT !.pc = "L290"]
                      ELSE Return(inv[k], "nil")
                 ELSE [Logged(inv[k], Ev("IsClusterRegistered", "ArgoCD",
                                         IsClusterRegistered.err, ""))
                       EXCEPT !.pc = "L224"]]
    /\ UNCHANGED <<store, now, config, Log, prev>>

(***************************************************************************)
(* handleFinalizer, lines 283-335.                                         *)
(***************************************************************************)
\* line 290: write Degraded/Finalizing
FinalizingStatus(k) ==
    /\ inv[k].pc = "L290"
    /\ LET w == StatusUpdate(k, inv[k].RegisterCR)
           fr == Logged([inv[k] EXCEPT !.RegisterCR = w.obj],
                        Ev("StatusUpdate", "Register", w.err, "Degraded")) IN
       /\ registers' = w.registers
       /\ inv' = [inv EXCEPT ![k] =
                    IF w.err # "nil" THEN Return(fr, w.err)
                    ELSE [fr EXCEPT !.pc = "L294"]]
    /\ UNCHANGED <<clusters, secrets, now, config, Log, prev>>

\* line 294: re-fetch
FinalizingGet(k) ==
    /\ inv[k].pc = "L294"
    /\ LET g == GetRegister(k)
           fr == Logged(inv[k], Ev("Get", "Register", g.err, "")) IN
       inv' = [inv EXCEPT ![k] =
                 IF g.err # "nil" THEN Return(fr, g.err)
                 ELSE [fr EXCEPT !.RegisterCR = Into(fr.RegisterCR, g.obj),
                                 !.pc = "L301"]]
    /\ UNCHANGED <<store, now, config, Log, prev>>

\* handleFinalizer that goes on to remove the finalizer whatever
\* UnRegisterCluster returned
FinalizerOperations_IgnoreError(k, unregisterErr) ==
    /\ inv[k].pc = "L301"
    /\ LET fr == Logged(inv[k], Ev("UnRegisterCluster", "ArgoCD", unregisterErr, "")) IN
       inv' = [inv EXCEPT ![k] =
                 [WithCondition(Logged(fr, Ev("Event", "Recorder", "nil", "Deleting")),
                     Condition(ConditionDegraded, "True", "Finalizing",
                         "Cluster is unregister successfully accomplished"))
                  EXCEPT !.pc = "L315"]]
    /\ UNCHANGED <<store, now, config, Log, prev>>

\* lines 301-314, 371-386: doFinalizerOperations, where the manager's
\* UnRegisterCluster returns unregisterErr
FinalizerOperations(k, unregisterErr) ==
    /\ inv[k].pc = "L301"
    /\ LET fr == Logged(inv[k], Ev("UnRegisterCluster", "ArgoCD", unregisterErr, "")) IN
       inv' = [inv EXCEPT ![k] =
                 IF unregisterErr # "nil"
                 THEN [WithCondition([fr EXCEPT !.err = unregisterErr],
                          Condition(ConditionDegraded, "Unknown", "Finalizing",
                              "Error to perform required operations: " \o unregisterErr))
                       EXCEPT !.pc = "L305"]
                 ELSE IF ~hasRecorder
                 THEN Return(fr, "panic: nil pointer dereference")
                 ELSE [WithCondition(Logged(fr, Ev("Event", "Recorder", "nil", "Deleting")),
                          Condition(ConditionDegraded, "True", "Finalizing",
                              "Cluster is unregister successfully accomplished"))
                       EXCEPT !.pc = "L315"]]
    /\ UNCHANGED <<store, now, config, Log, prev>>

doFinalizerOperations(k) == FinalizerOperations(k, UnRegisterCluster)

\* the unregister error path that skips the status write
UnregisterErrorStatus_NoWrite(k) ==
    /\ inv[k].pc = "L305"
    /\ inv' = [inv EXCEPT ![k] = Return(inv[k], inv[k].err)]
    /\ UNCHANGED <<store, now, config, Log, prev>>

\* lines 305-309: write Degraded/Unknown and return the unregister error
UnregisterErrorStatus(k) ==
    /\ inv[k].pc = "L305"
    /\ LET w == StatusUpdate(k, inv[k].RegisterCR)
           fr == Logged([inv[k] EXCEPT !.RegisterCR = w.obj],
                        Ev("StatusUpdate", "Register", w.err, "Degraded")) IN
       /\ registers' = w.registers
       /\ inv' = [inv EXCEPT ![k] =
                    IF w.err # "nil" THEN Return(fr, w.err)
                    ELSE Return(fr, fr.err)]
    /\ UNCHANGED <<clusters, secrets, now, config, Log, prev>>

\* line 315: write Degraded/Finalizing "unregister accomplished"
UnregisteredStatus(k) ==
    /\ inv[k].pc = "L315"
    /\ LET w == StatusUpdate(k, inv[k].RegisterCR)
           fr == Logged([inv[k] EXCEPT !.RegisterCR = w.obj],
                        Ev("StatusUpdate", "Register", w.err, "Degraded")) IN
       /\ registers' = w.registers
       /\ inv' = [inv EXCEPT ![k] =
                    IF w.err # "nil" THEN Return(fr, w.err)
                    ELSE [fr EXCEPT !.pc = "L321"]]
    /\ UNCHANGED <<clusters, secrets, now, config, Log, prev>>

\* removing the finalizer from the local copy, without the re-fetch
RemoveFinalizerGet_NoFetch(k) ==
    /\ inv[k].pc = "L321"
    /\ inv' = [inv EXCEPT ![k] =
                 IF ~ContainsFinalizer(inv[k].RegisterCR, registerCRFinalizer)
                 THEN Return(inv[k], "nil")
                 ELSE [inv[k] EXCEPT !.RegisterCR.finalizers =
                                        @ \ {registerCRFinalizer},
                                     !.pc = "L329"]]
    /\ UNCHANGED <<store, now, config, Log, prev>>

\* lines 321-328: re-fetch and controllerutil.RemoveFinalizer
RemoveFinalizerGet(k) ==
    /\ inv[k].pc = "L321"
    /\ LET g == GetRegister(k)
           fr == Logged(inv[k], Ev("Get", "Register", g.err, ""))
           local == Into(fr.RegisterCR, g.obj) IN
       inv' = [inv EXCEPT ![k] =
                 IF g.err # "nil" THEN Return(fr, g.err)
                 ELSE IF ~ContainsFinalizer(local, registerCRFinalizer)
                 THEN Return([fr EXCEPT !.RegisterCR = local], "nil")
                 ELSE [fr EXCEPT !.RegisterCR =
                                    [local EXCEPT !.finalizers =
                                                     @ \ {registerCRFinalizer}],
                                 !.pc = "L329"]]
    /\ UNCHANGED <<store, now, config, Log, prev>>

\* line 329: write the Register without the finalizer
RemoveFinalizerUpdate(k) ==
    /\ inv[k].pc = "L329"
    /\ LET w == Update(k, inv[k].RegisterCR)
           fr == Logged([inv[k] EXCEPT !.RegisterCR = w.obj],
                        Ev("Update", "Register", w.err, "RemoveFinalizer")) IN
       /\ registers' = w.registers
       /\ inv' = [inv EXCEPT ![k] = Return(fr, w.err)]
    /\ UNCHANGED <<clusters, secrets, now, config, Log, prev>>

(***************************************************************************)
(* handleClusterRegistration, lines 220-260.                               *)
(***************************************************************************)
AvailableCondition ==
    Condition(ConditionAvailable, "True", "Reconciling", "Cluster is Registered")

\* lines 224-239: re-fetch; IsClusterRegistered has answered (false, nil)
RegistrationGet(k) ==
    /\ inv[k].pc = "L224"
    /\ LET g == GetRegister(k)
           fr == Logged(inv[k], Ev("Get", "Register", g.err, ""))
           got == [fr EXCEPT !.RegisterCR = Into(fr.RegisterCR, g.obj)] IN
       inv' = [inv EXCEPT ![k] =
                 IF g.err # "nil" THEN Return(fr, g.err)
                 ELSE IF IsClusterRegistered.err # "nil"
                 THEN [WithCondition(got,
                          Condition(ConditionDegraded, "True", "Error",
                              "Unable to verify Cluster Registration: "
                                  \o IsClusterRegistered.err))
                       EXCEPT !.pc = "L233"]
                 ELSE IF ~IsClusterRegistered.registered
                 THEN [got EXCEPT !.pc = "L240"]
                 ELSE [WithCondition(got, AvailableCondition) EXCEPT !.pc = "L255"]]
    /\ UNCHANGED <<store, now, config, Log, prev>>

\* lines 240-254: RegisterCluster; its error is written to Degraded
RegisterStep(k) ==
    /\ inv[k].pc = "L240"
    /\ \E resp \in Responses :
         LET err == RegisterCluster(inv[k].mgr, resp)
             sent == RegisterSendsRequest(inv[k].mgr)
             fr == Logged([inv[k] EXCEPT !.resp = IF sent THEN resp ELSE NoResponse,
                                   !.request = IF sent
                                               THEN RegisterRequest(inv[k].mgr)
                                               ELSE NoRequest],
                          Ev("RegisterCluster", "ArgoCD", err,
                             IF sent THEN "POST" ELSE "")) IN
         inv' = [inv EXCEPT ![k] =
                   IF err # "nil"
                   THEN [WithCondition(fr,
                            Condition(ConditionDegraded, "True", "Error",
                                "Unable to register Cluster into ArgoCD: " \o err))
                         EXCEPT !.pc = "L245"]
                   ELSE [WithCondition(fr, AvailableCondition) EXCEPT !.pc = "L255"]]
    /\ UNCHANGED <<store, now, config, Log, prev>>

\* lines 245-254: write Degraded, then go on to set Available
RegisterErrorStatus(k) ==
    /\ inv[k].pc = "L245"
    /\ LET w == StatusUpdate(k, inv[k].RegisterCR)
           fr == Logged([inv[k] EXCEPT !.RegisterCR = w.obj],
                        Ev("StatusUpdate", "Register", w.err, "Degraded")) IN
       /\ registers' = w.registers
       /\ inv' = [inv EXCEPT ![k] =
                    IF w.err # "nil" THEN Return(fr, w.err)
                    ELSE [WithCondition(fr, AvailableCondition) EXCEPT !.pc = "L255"]]
    /\ UNCHANGED <<clusters, secrets, now, config, Log, prev>>

\* lines 255-259: write Available and return
AvailableStatus(k) ==
    /\ inv[k].pc = "L255"
    /\ LET w == StatusUpdate(k, inv[k].RegisterCR)
           fr == Logged([inv[k] EXCEPT !.RegisterCR = w.obj],
                        Ev("StatusUpdate", "Register", w.err, "Available")) IN
       /\ registers' = w.registers
       /\ inv' = [inv EXCEPT ![k] = Return(fr, w.err)]
    /\ UNCHANGED <<clusters, secrets, now, config, Log, prev>>

(***************************************************************************)
(* The caller: the framework takes the result and the frame is dropped.    *)
(***************************************************************************)
RemovedFinalizer(log) ==
    \E i \in 1..Len(log) :
        log[i].op = "Update" /\ log[i].note = "RemoveFinalizer" /\ log[i].err = "nil"

Finish(k) ==
    /\ inv[k].pc = "done"
    /\ inv' = [inv EXCEPT ![k] = IdleFrame]
    /\ prev' = [prev EXCEPT ![k] =
                  IF RemovedFinalizer(inv[k].log) THEN "finalized" ELSE "reconciled"]
    /\ UNCHANGED <<store, now, config, Log>>

ReconcileSteps(k) ==
    \/ Reconcile(k)
    \/ GetRegisterOfDeletedCluster(k)
    \/ SetDeletionTimestamp(k)
    \/ GetRegisterOrCreate(k)
    \/ createRegisterCR(k)
    \/ GetCreatedRegister(k)
    \/ getClusterKubeConfigFromSecret(k)
    \/ KubeConfigErrorGet(k)
    \/ KubeConfigErrorStatus(k)
    \/ handleIntegrationWithArgoCDAPI(k)
    \/ TokenErrorGet(k)
    \/ TokenErrorStatus(k)
    \/ Dispatch(k)
    \/ FinalizingStatus(k)
    \/ FinalizingGet(k)
    \/ doFinalizerOperations(k)
    \/ UnregisteredStatus(k)
    \/ RemoveFinalizerGet(k)
    \/ RemoveFinalizerUpdate(k)
    \/ RegistrationGet(k)
    \/ RegisterStep(k)
    \/ RegisterErrorStatus(k)
    \/ AvailableStatus(k)
    \/ Finish(k)

Next ==
    \/ Environment
    \/ \E k \in Keys : ReconcileSteps(k)

Spec == Init /\ [][Next]_vars

(***************************************************************************)
(* Faults.  The store may fail any request with an error other than        *)
(* NotFound (a conflict, a timeout); Reconcile returns at each such error. *)
(***************************************************************************)
StoreOp(pc) ==
    CASE pc = "idle" -> Ev("Get", "Cluster", "StoreError", "")
      [] pc \in {"L120", "L142", "L151", "L186", "L204", "L224", "L294", "L321"}
            -> Ev("Get", "Register", "StoreError", "")
      [] pc = "L133" -> Ev("Update", "Register", "StoreError", "SetDeletionTimestamp")
      [] pc = "L329" -> Ev("Update", "Register", "StoreError", "RemoveFinalizer")
      [] pc = "L147" -> Ev("Create", "Register", "StoreError", "")
      [] pc \in {"L193", "L211", "L245", "L290", "L305", "L315"}
            -> Ev("StatusUpdate", "Register", "StoreError", "Degraded")
      [] pc = "L255" -> Ev("StatusUpdate", "Register", "StoreError", "Available")

StorePcs ==
    {"idle", "L120", "L133", "L142", "L147", "L151", "L186", "L193", "L204",
     "L211", "L224", "L245", "L255", "L290", "L294", "L305", "L315", "L321",
     "L329"}

\* a rejected status write at line 245 that is logged and not returned
StoreError_Swallowed(k) ==
    /\ inv[k].pc \in StorePcs
    /\ LET fr == IF inv[k].pc = "idle" THEN StartFrame(k) ELSE inv[k] IN
       inv' = [inv EXCEPT ![k] =
                 IF inv[k].pc = "L245"
                 THEN [WithCondition(Logged(fr, StoreOp(inv[k].pc)),
                                     AvailableCondition)
                       EXCEPT !.pc = "L255"]
                 ELSE Return(Logged(fr, StoreOp(inv[k].pc)),
                             IF inv[k].pc = "L147"
                             THEN "failed to create Register CR: StoreError"
                             ELSE "StoreError")]
    /\ Log' = IF inv[k].pc = "idle" THEN k ELSE Log
    /\ UNCHANGED <<store, now, config, prev>>

\* a failed fetch at line 142 that is taken for NotFound: the create follows
StoreError_AsNotFound(k) ==
    /\ inv[k].pc \in StorePcs
    /\ LET fr == IF inv[k].pc = "idle" THEN StartFrame(k) ELSE inv[k] IN
       inv' = [inv EXCEPT ![k] =
                 IF inv[k].pc = "L142"
                 THEN [Logged(fr, StoreOp(inv[k].pc)) EXCEPT !.pc = "L147"]
                 ELSE Return(Logged(fr, StoreOp(inv[k].pc)),
                             IF inv[k].pc = "L147"
                             THEN "failed to create Register CR: StoreError"
                             ELSE "StoreError")]
    /\ Log' = IF inv[k].pc = "idle" THEN k ELSE Log
    /\ UNCHANGED <<store, now, config, prev>>

StoreError(k) ==
    /\ inv[k].pc \in StorePcs
    /\ LET fr == IF inv[k].pc = "idle" THEN StartFrame(k) ELSE inv[k] IN
       inv' = [inv EXCEPT ![k] =
                 Return(Logged(fr, StoreOp(inv[k].pc)),
                        IF inv[k].pc = "L147"
                        THEN "failed to create Register CR: StoreError"
                        ELSE "StoreError")]
    /\ Log' = IF inv[k].pc = "idle" THEN k ELSE Log
    /\ UNCHANGED <<store, now, config, prev>>

NextStoreFaults ==
    \/ Next
    \/ \E k \in Keys : StoreError(k)

SpecStoreFaults == Init /\ [][NextStoreFaults]_vars

(***************************************************************************)
(* UnRegisterCluster is a stub that returns nil.  handleFinalizer handles  *)
(* its error all the same; that branch is exercised with a manager whose   *)
(* UnRegisterCluster fails.                                                *)
(***************************************************************************)
UnregisterError(k) == FinalizerOperations(k, "error unregistering cluster")

NextUnregisterFails ==
    \/ Next
    \/ \E k \in Keys : UnregisterError(k)
    \/ \E k \in Keys : UnregisterErrorStatus(k)

SpecUnregisterFails == Init /\ [][NextUnregisterFails]_vars

(***************************************************************************)
(* Vocabulary of the properties.                                           *)
(***************************************************************************)
Returned(k) == inv[k].pc = "done"

Succeeded(k) == Returned(k) /\ inv[k].result = "nil"

Events(k, op) == {i \in 1..Len(inv[k].log) : inv[k].log[i].op = op}

Failed(k, op) == {i \in Events(k, op) : inv[k].log[i].err # "nil"}

Done(k, op) == {i \in Events(k, op) : inv[k].log[i].err = "nil"}

Writes(k) == Events(k, "Create") \cup Events(k, "Update") \cup Events(k, "StatusUpdate")

RemoteCalls(k) == Events(k, "RegisterCluster") \cup Events(k, "UnRegisterCluster")

StoreErrors(k) ==
    {i \in 1..Len(inv[k].log) : inv[k].log[i].err = "StoreError"}

AvailableWrites(k) ==
    {i \in Done(k, "StatusUpdate") : inv[k].log[i].note = "Available"}

OnActivePath(k) == Events(k, "IsClusterRegistered") # {}

StoredConditions(k) == GetRegister(k).obj.conditions

StoredCondition(k, type) ==
    StoredConditions(k)[FindStatusCondition(StoredConditions(k), type)]

HasStoredCondition(k, type) == FindStatusCondition(StoredConditions(k), type) # 0

OwnedBy(r, k) == [kind |-> "Cluster", name |-> k.name] \in r.ownerReferences

(***************************************************************************)
(* C1: for a Cluster that exists and has no Register, a Reconcile that     *)
(* returns success leaves exactly one Register for it, with the Cluster's  *)
(* name and namespace and an owner reference to the Cluster; and no state  *)
(* holds two Registers for one Cluster.                                    *)
(***************************************************************************)
C1_OneRegisterPerCluster ==
    \A k \in Keys :
        /\ Cardinality(Stored(k)) <= 1
        /\ Cardinality({r \in registers : OwnedBy(r, k)}) <= 1
        /\ (Succeeded(k) /\ inv[k].start.cluster /\ ~inv[k].start.register)
              => /\ Cardinality(Stored(k)) = 1
                 /\ \A r \in Stored(k) :
                      /\ r.name = k.name
                      /\ r.namespace = k.namespace
                      /\ OwnedBy(r, k)

C1_Witness ==
    \E k \in Keys :
        /\ Succeeded(k) /\ inv[k].start.cluster /\ ~inv[k].start.register
        /\ Done(k, "Create") # {}
        /\ \E r \in Stored(k) : OwnedBy(r, k)

(***************************************************************************)
(* C2: when RegisterCluster fails on the Active path, Reconcile returns    *)
(* that error and does not write Available=True; Available=True is written *)
(* only in a Reconcile in which RegisterCluster succeeded.                 *)
(***************************************************************************)
C2_RegisterFailureNotAvailable ==
    \A k \in Keys :
        /\ (Returned(k) /\ Failed(k, "RegisterCluster") # {})
              => /\ \E i \in Failed(k, "RegisterCluster") :
                      inv[k].result = inv[k].log[i].err
                 /\ AvailableWrites(k) = {}
        /\ AvailableWrites(k) # {} => Done(k, "RegisterCluster") # {}

(***************************************************************************)
(* C3: with the Cluster and its kubeconfig Secret (stored under the        *)
(* Cluster's namespace/name) in place, Reconcile returns no error, and     *)
(* after a Reconcile that succeeds on the Active path the last entry of    *)
(* the stored condition list has type Available.                           *)
(* As claimed, the last entry is Available whatever reconciles preceded.   *)
(* As amended, the list holds exactly one Available entry, with status     *)
(* True, and it is the last entry when the Register held no Available      *)
(* entry at the start of that Reconcile.                                   *)
(***************************************************************************)
HasKubeConfigSecret(k) ==
    secrets[k].present /\ "kubeconfig" \in DOMAIN secrets[k].data

C3_ReturnsNoError(k) ==
    (Returned(k) /\ inv[k].start.cluster /\ HasKubeConfigSecret(k)
        /\ StoreErrors(k) = {})
       => inv[k].result = "nil"

StartedFinalizing(k) ==
    /\ inv[k].start.register
    /\ inv[k].start.obj.deletionTimestamp # NoTime
    /\ registerCRFinalizer \in inv[k].start.obj.finalizers

StartedDone(k) ==
    /\ inv[k].start.register
    /\ inv[k].start.obj.deletionTimestamp # NoTime
    /\ registerCRFinalizer \notin inv[k].start.obj.finalizers

NoOp(k) ==
    /\ inv[k].result = "nil"
    /\ Writes(k) = {}
    /\ RemoteCalls(k) = {}

C4_FinalizeThenNoOp ==
    \A k \in Keys :
        /\ (Returned(k) /\ StartedFinalizing(k) /\ Done(k, "UnRegisterCluster") # {})
              => registerCRFinalizer \notin GetRegister(k).obj.finalizers
        /\ (Returned(k) /\ prev[k] = "finalized" /\ StartedDone(k)) => NoOp(k)

(***************************************************************************)
(* C5: the finalizer leaves a stored Register only by a Reconcile in which *)
(* UnRegisterCluster was called before and returned success.               *)
(***************************************************************************)
HoldsFinalizer(k) ==
    GetRegister(k).err = "nil" /\ registerCRFinalizer \in GetRegister(k).obj.finalizers

C5_FinalizerRemovedAfterUnregister ==
    [][\A k \in Keys :
          (HoldsFinalizer(k) /\ ~HoldsFinalizer(k)')
             => /\ Done(k, "UnRegisterCluster")' # {}
                /\ Failed(k, "UnRegisterCluster")' = {}
                /\ inv'[k].pc = "done"
                /\ inv'[k].log[Len(inv'[k].log)].op = "Update"]_vars

C5_Witness ==
    \E k \in Keys :
        /\ Returned(k) /\ StartedFinalizing(k)
        /\ RemovedFinalizer(inv[k].log)
        /\ GetRegister(k).err = "nil" /\ ~HoldsFinalizer(k)

(***************************************************************************)
(* C6: when the kubeconfig Secret cannot be fetched or lacks the           *)
(* "kubeconfig" field, Reconcile writes Degraded=True with a message that  *)
(* describes the failure and returns the credential error.                 *)
(***************************************************************************)
KubeConfigFailures(k) ==
    {i \in Failed(k, "Get") :
        inv[k].log[i].target = "Secret" /\ inv[k].log[i].note = "kubeconfig"}

C6_KubeConfigFailure ==
    \A k \in Keys :
        (Returned(k) /\ KubeConfigFailures(k) # {})
           => \E i \in KubeConfigFailures(k) :
                 /\ inv[k].log[i].err \in {"NotFound", "kubeconfig not found in secret"}
                 /\ inv[k].result = inv[k].log[i].err
                 /\ Done(k, "StatusUpdate") # {}
                 /\ HasStoredCondition(k, ConditionDegraded)
                 /\ StoredCondition(k, ConditionDegraded).status = "True"
                 /\ StoredCondition(k, ConditionDegraded).message
                       = "Unable to gathering kubeConfig: " \o inv[k].log[i].err

C6_Witness ==
    \E k \in Keys :
        /\ Returned(k) /\ KubeConfigFailures(k) # {}
        /\ inv[k].result = "kubeconfig not found in secret"
        /\ HasStoredCondition(k, ConditionDegraded)

(***************************************************************************)
(* C7: when the token Secret is missing, lacks "admin.password" or holds   *)
(* a value that is not base64, Reconcile writes a Degraded condition whose *)
(* message names the failure and returns an error.                         *)
(***************************************************************************)
TokenFailures(k) ==
    {i \in Failed(k, "Get") :
        inv[k].log[i].target = "Secret" /\ inv[k].log[i].note = "token"}

C7_TokenFailureReturnsError ==
    \A k \in Keys :
        (Returned(k) /\ TokenFailures(k) # {})
           => /\ Done(k, "StatusUpdate") # {}
              /\ inv[k].result # "nil"

(***************************************************************************)
(* C8: in the Finalizing state, when UnRegisterCluster fails, Reconcile    *)
(* sets Degraded to Unknown with the error in the message, returns that    *)
(* error and leaves the finalizer on the Register.                         *)
(***************************************************************************)
C8_UnregisterFailure ==
    \A k \in Keys :
        (Returned(k) /\ Failed(k, "UnRegisterCluster") # {})
           => \E i \in Failed(k, "UnRegisterCluster") :
                 /\ inv[k].result = inv[k].log[i].err
                 /\ HasStoredCondition(k, ConditionDegraded)
                 /\ StoredCondition(k, ConditionDegraded).status = "Unknown"
                 /\ StoredCondition(k, ConditionDegraded).message
                       = "Error to perform required operations: " \o inv[k].log[i].err
                 /\ HoldsFinalizer(k)

C8_Witness ==
    \E k \in Keys :
        /\ Returned(k) /\ StartedFinalizing(k)
        /\ Failed(k, "UnRegisterCluster") # {}
        /\ inv[k].result = "error unregistering cluster"

(***************************************************************************)
(* C9: when the Cluster is gone and its Register exists, Reconcile writes  *)
(* a deletion marker if the Register has none, issues no marker update if  *)
(* it has one, and never removes the Register from the store.              *)
(***************************************************************************)
MarkerUpdates(k) ==
    {i \in Events(k, "Update") : inv[k].log[i].note = "SetDeletionTimestamp"}

C9_SourceDeletedMarks ==
    \A k \in Keys :
        (Returned(k) /\ ~inv[k].start.cluster /\ inv[k].start.register)
           => /\ GetRegister(k).err = "nil"
              /\ Events(k, "Create") = {}
              /\ GetRegister(k).obj.deletionTimestamp # NoTime
              /\ IF inv[k].start.obj.deletionTimestamp = NoTime
                 THEN /\ Cardinality(MarkerUpdates(k)) = 1
                      /\ MarkerUpdates(k) \subseteq Done(k, "Update")
                 ELSE /\ MarkerUpdates(k) = {}
                      /\ GetRegister(k).obj.deletionTimestamp
                            = inv[k].start.obj.deletionTimestamp

C9_Witness ==
    \E k \in Keys :
        /\ Returned(k) /\ ~inv[k].start.cluster /\ inv[k].start.register
        /\ inv[k].start.obj.deletionTimestamp = NoTime
        /\ GetRegister(k).obj.deletionTimestamp = now
        /\ now > 0

(***************************************************************************)
(* C10: in the Done state (deletion marker, no finalizer) Reconcile is a   *)
(* no-op in every environment: it returns success, writes neither the      *)
(* Register nor its status and makes no remote call.                       *)
(***************************************************************************)
C10_DoneIsNoOp ==
    \A k \in Keys : (Returned(k) /\ StartedDone(k)) => NoOp(k)

(***************************************************************************)
(* C11: a Register created by Reconcile is stored with a Progressing       *)
(* condition (True, "Creating Register"): right after the create step the  *)
(* stored condition list holds that entry.                                 *)
(***************************************************************************)
JustCreated(k) ==
    /\ inv[k].pc = "L151"
    /\ inv[k].log[Len(inv[k].log)] = Ev("Create", "Register", "nil", "")

ClusterNotFound(k) ==
    /\ Len(inv[k].log) >= 1
    /\ inv[k].log[1] = Ev("Get", "Cluster", "NotFound", "")

C12_AbsentIsNoOp ==
    \A k \in Keys :
        /\ (Returned(k) /\ ~inv[k].start.cluster /\ ~inv[k].start.register)
              => /\ NoOp(k)
                 /\ Stored(k) = {}
        /\ (Returned(k) /\ ClusterNotFound(k))
              => /\ Len(inv[k].log) >= 2
                 /\ inv[k].log[2].op = "Get" /\ inv[k].log[2].target = "Register"

C12_Witness ==
    \E k \in Keys :
        /\ Succeeded(k) /\ ~inv[k].start.cluster /\ ~inv[k].start.register
        /\ ClusterNotFound(k)
        /\ inv[k].log[2] = Ev("Get", "Register", "NotFound", "")
        /\ Len(inv[k].log) = 2

(***************************************************************************)
(* The framework keeps invoking Reconcile for the key and every invocation *)
(* runs to its return: weak fairness on the steps of Reconcile.            *)
(***************************************************************************)
SpecFair == Init /\ [][Next]_vars /\ WF_vars(\E k \in Keys : ReconcileSteps(k))

(***************************************************************************)
(* C13: once the Cluster is gone, if Reconcile keeps being invoked and     *)
(* UnRegisterCluster succeeds, the finalizer of its Register is eventually *)
(* removed, whether or not the kubeconfig Secret of the Cluster still      *)
(* exists.                                                                 *)
(***************************************************************************)
ClusterGone(k) == GetCluster(k).err = "NotFound"

C13_DeletedClusterReleasesRegister ==
    \A k \in Keys :
        (ClusterGone(k) /\ HoldsFinalizer(k))
           ~> (~HoldsFinalizer(k) \/ ~ClusterGone(k))

(***************************************************************************)
(* C14: in every reachable state the condition list of a stored Register   *)
(* holds at most one entry per type, every type is one of Available,       *)
(* Progressing, Degraded and every status one of True, False, Unknown.     *)
(***************************************************************************)
ConditionTypes == {ConditionAvailable, ConditionProgressing, ConditionDegraded}

ConditionStatuses == {"True", "False", "Unknown"}

WellFormed(conditions) ==
    /\ \A i, j \in 1..Len(conditions) :
          conditions[i].type = conditions[j].type => i = j
    /\ \A i \in 1..Len(conditions) :
          /\ conditions[i].type \in ConditionTypes
          /\ conditions[i].status \in ConditionStatuses

C14_ConditionsWellFormed == \A r \in registers : WellFormed(r.conditions)

C14_Witness ==
    \E k \in Keys :
        /\ Returned(k) /\ Failed(k, "UnRegisterCluster") # {}
        /\ Len(StoredConditions(k)) >= 2
        /\ HasStoredCondition(k, ConditionAvailable)
        /\ HasStoredCondition(k, ConditionDegraded)
        /\ StoredCondition(k, ConditionDegraded).status = "Unknown"

(***************************************************************************)
(* C15: setting a condition whose type is in the list with the same status *)
(* and reason, whether the message is the same or not, leaves the entry's  *)
(* lastTransitionTime and the length of the list as they were and leaves   *)
(* one entry of that type, carrying the new message; a Reconcile that      *)
(* succeeds on the Active path on a Register that already held Available   *)
(* leaves Available's lastTransitionTime as it was.                        *)
(***************************************************************************)
OfType(conditions, type) ==
    {i \in 1..Len(conditions) : conditions[i].type = type}

SetAgain(conditions, i, message) ==
    SetStatusCondition(conditions,
        Condition(conditions[i].type, conditions[i].status,
                  conditions[i].reason, message), now)

C15_SameStatusReasonKeepsTime ==
    \A k \in Keys :
        /\ \A i \in 1..Len(StoredConditions(k)) :
             \A message \in {StoredConditions(k)[i].message, "Y"} :
                LET before == StoredConditions(k)
                    after == SetAgain(before, i, message) IN
                /\ Len(after) = Len(before)
                /\ OfType(after, before[i].type) = {i}
                /\ after[i].lastTransitionTime = before[i].lastTransitionTime
                /\ after[i].message = message
                /\ after[i].status = before[i].status
                /\ after[i].reason = before[i].reason
        /\ (Succeeded(k) /\ OnActivePath(k)
              /\ FindStatusCondition(inv[k].start.obj.conditions,
                                     ConditionAvailable) # 0)
              => /\ Cardinality(OfType(StoredConditions(k), ConditionAvailable)) = 1
                 /\ StoredCondition(k, ConditionAvailable).lastTransitionTime
                      = inv[k].start.obj.conditions[
                           FindStatusCondition(inv[k].start.obj.conditions,
                                               ConditionAvailable)].lastTransitionTime
                 /\ Len(StoredConditions(k)) >= Len(inv[k].start.obj.conditions)

C15_Witness ==
    \E k \in Keys :
        /\ Succeeded(k) /\ OnActivePath(k) /\ prev[k] = "reconciled"
        /\ Done(k, "RegisterCluster") # {}
        /\ AvailableWrites(k) # {}
        /\ FindStatusCondition(inv[k].start.obj.conditions, ConditionAvailable) # 0
        /\ StoredCondition(k, ConditionAvailable).lastTransitionTime < now
        /\ StoredConditions(k) = inv[k].start.obj.conditions

(***************************************************************************)
(* C16: setting a condition whose type is in the list.                     *)
(* As claimed, a different status or a different reason always moves the   *)
(* entry's lastTransitionTime to the time of the call, the change of       *)
(* Degraded from (True, "Error") to (True, "Finalizing") included.         *)
(* As amended, a different status moves lastTransitionTime to the time of  *)
(* the call (Degraded from True to Unknown), and a different reason with   *)
(* the same status leaves it as it was (Degraded from (True, "Error") to   *)
(* (True, "Finalizing")).                                                  *)
(***************************************************************************)
StatusWritePcs == {"L193", "L211", "L245", "L255", "L290", "L305", "L315"}

Reasons == {"Error", "Finalizing"}

\* the entries about to be written, with the stored entries they replace
Transitions(k) ==
    IF inv[k].pc \notin StatusWritePcs THEN {}
    ELSE {[old |-> StoredCondition(k, type),
           new |-> inv[k].RegisterCR.conditions[
                      FindStatusCondition(inv[k].RegisterCR.conditions, type)]] :
            type \in {t \in ConditionTypes :
                        /\ HasStoredCondition(k, t)
                        /\ FindStatusCondition(inv[k].RegisterCR.conditions, t) # 0}}

C16_Original ==
    \A k \in Keys :
        /\ \A i \in 1..Len(StoredConditions(k)) :
             \A status \in ConditionStatuses, reason \in Reasons :
                LET before == StoredConditions(k)
                    after == SetStatusCondition(before,
                                Condition(before[i].type, status, reason, "Y"), now) IN
                (status # before[i].status \/ reason # before[i].reason)
                   => after[i].lastTransitionTime = now
        /\ \A tr \in Transitions(k) :
             (tr.new.status # tr.old.status \/ tr.new.reason # tr.old.reason)
                => tr.new.lastTransitionTime = now

C16_StatusChangeMovesTime ==
    \A k \in Keys :
        /\ \A i \in 1..Len(StoredConditions(k)) :
             \A status \in ConditionStatuses, reason \in Reasons :
                LET before == StoredConditions(k)
                    after == SetStatusCondition(before,
                                Condition(before[i].type, status, reason, "Y"), now) IN
                after[i].lastTransitionTime =
                   IF status # before[i].status THEN now
                   ELSE before[i].lastTransitionTime
        /\ \A tr \in Transitions(k) :
             tr.new.lastTransitionTime =
                IF tr.new.status # tr.old.status THEN now
                ELSE tr.old.lastTransitionTime

C16_Witness ==
    \E k \in Keys :
        /\ inv[k].pc = "L305"
        /\ FindStatusCondition(inv[k].start.obj.conditions, ConditionDegraded) # 0
        /\ inv[k].start.obj.conditions[
              FindStatusCondition(inv[k].start.obj.conditions, ConditionDegraded)]
             = [StoredCondition(k, ConditionDegraded) EXCEPT
                  !.reason = "Error",
                  !.message = "Unable to gathering kubeConfig: NotFound"]
        /\ StoredCondition(k, ConditionDegraded).status = "True"
        /\ StoredCondition(k, ConditionDegraded).reason = "Finalizing"
        /\ StoredCondition(k, ConditionDegraded).lastTransitionTime < now
        /\ \E tr \in Transitions(k) :
              /\ tr.old = StoredCondition(k, ConditionDegraded)
              /\ tr.new.status = "Unknown"
              /\ tr.new.lastTransitionTime = now

(***************************************************************************)
(* C17: when the store rejects a write of Reconcile (the create, an update *)
(* or a status update), Reconcile returns an error and that invocation     *)
(* makes no further write and no further RegisterCluster or                *)
(* UnRegisterCluster call.                                                 *)
(***************************************************************************)
RejectedWrites(k) == {i \in Writes(k) : inv[k].log[i].err # "nil"}

C17_RejectedWriteStops ==
    \A k \in Keys :
        \A i \in RejectedWrites(k) :
            /\ Returned(k)
            /\ inv[k].result # "nil"
            /\ \A j \in Writes(k) \cup RemoteCalls(k) : j <= i

C17_Witness ==
    \E k \in Keys :
        /\ Returned(k) /\ inv[k].result = "StoreError"
        /\ RejectedWrites(k) = {Len(inv[k].log)}
        /\ inv[k].log[Len(inv[k].log)].op = "StatusUpdate"
        /\ Done(k, "RegisterCluster") # {}

(***************************************************************************)
(* The APIManager on its own: a manager is built from a Cluster,           *)
(* kubeconfig bytes and the token Secret of the store, as its test builds  *)
(* it, and RegisterCluster is then called on it.  The position is "api"    *)
(* before NewAPIManagerWithCluster, "api.built" after it and "api.done"    *)
(* after RegisterCluster.                                                  *)
(***************************************************************************)
Hosts == {"Host", "10.0.0.1"}

\* control-plane ports, with their decimal text
PortText ==
    (-1 :> "-1") @@ (0 :> "0") @@ (80 :> "80") @@ (443 :> "443") @@ (6443 :> "6443")

Ports == DOMAIN PortText

ClusterInputs ==
    {[name |-> n, namespace |-> "test", host |-> h, port |-> p] :
        n \in {"test", "c1"}, h \in Hosts, p \in Ports}

\* what the token Secret may hold, and where it may be stored
TokenSecrets ==
    {[present |-> TRUE, data |-> d] :
        d \in SecretData(ArgoSecretKey) \cup {"admin.password" :> "dG9r"}}

TokenSecretLocations ==
    {[namespace |-> n, name |-> m] :
        n \in {defaultNamespace, "argo-system"},
        m \in {defaultSecretName, "argo-token"}}

\* the settings of the three variables, each set or not
EnvValue ==
    (NamespaceEnvVar :> "argo-system") @@ (SecretNameEnvVar :> "argo-token")
       @@ (APIEndpointEnvVar :> "https://argocd.internal:8443")

EnvInputs == {[n \in S |-> EnvValue[n]] : S \in SUBSET (DOMAIN EnvValue)}

\* the answers the remote API (or the transport) can give, other 2xx included
HTTPResponses ==
    Responses \cup
    {[transport |-> "nil", code |-> 201, status |-> "201 Created"],
     [transport |-> "nil", code |-> 204, status |-> "204 No Content"],
     [transport |-> "nil", code |-> 404, status |-> "404 Not Found"]}

InitAPIManager ==
    /\ clusters = {}
    /\ registers = {}
    /\ now = 0
    /\ directClient = FALSE
    /\ hasRecorder = TRUE
    /\ env \in EnvInputs
    /\ Log = NoKey
    /\ prev = [k \in Keys |-> "none"]
    /\ \E s \in TokenSecrets \cup {NoSecret}, at \in TokenSecretLocations :
          secrets = [sk \in SecretKeys \cup TokenSecretLocations |->
                        IF sk = at THEN s ELSE NoSecret]
    /\ \E c \in ClusterInputs, kubeConfig \in KubeConfigs :
          inv = [k \in Keys |->
                    [IdleFrame EXCEPT !.pc = "api", !.clusterAPI = c,
                                      !.kubeconfig = kubeConfig]]

\* NewAPIManagerWithCluster(ctx, client, log, clusterAPI, kubeConfig)
NewAPIManager(k) ==
    /\ inv[k].pc = "api"
    /\ LET m == NewAPIManagerWithCluster(inv[k].clusterAPI, inv[k].kubeconfig,
                                         secrets) IN
       inv' = [inv EXCEPT ![k] =
                 [Logged([inv[k] EXCEPT !.mgr = m.mgr, !.err = m.err],
                         Ev("Get", "Secret", m.err, "token"))
                  EXCEPT !.pc = "api.built"]]
    /\ UNCHANGED <<store, now, config, Log, prev>>

\* apiManager.RegisterCluster()
RegisterCall(k) ==
    /\ inv[k].pc = "api.built"
    /\ \E resp \in HTTPResponses :
         LET err == RegisterCluster(inv[k].mgr, resp)
             sent == RegisterSendsRequest(inv[k].mgr) IN
         inv' = [inv EXCEPT ![k] =
                   [Logged([inv[k] EXCEPT
                               !.resp = IF sent THEN resp ELSE NoResponse,
                               !.request = IF sent
                                           THEN RegisterRequest(inv[k].mgr)
                                           ELSE NoRequest,
                               !.err = err],
                           Ev("RegisterCluster", "ArgoCD", err,
                              IF sent THEN "POST" ELSE ""))
                    EXCEPT !.pc = "api.done", !.result = err]]
    /\ UNCHANGED <<store, now, config, Log, prev>>

NextAPIManager ==
    \/ \E k \in Keys : NewAPIManager(k)
    \/ \E k \in Keys : RegisterCall(k)

SpecAPIManager == InitAPIManager /\ [][NextAPIManager]_vars

(***************************************************************************)
(* C18: RegisterCluster returns success if and only if the HTTP response   *)
(* has status 200; every other status code, 201 and the other 2xx codes    *)
(* included, and every transport error make it return an error, and for a  *)
(* response other than 200 the error message carries the status text of    *)
(* the response.                                                           *)
(***************************************************************************)
Registered(k) == inv[k].pc = "api.done"

C18_SuccessIffStatusOK ==
    \A k \in Keys :
        Registered(k)
           => /\ inv[k].result = "nil"
                   <=> /\ inv[k].log[Len(inv[k].log)].note = "POST"
                       /\ inv[k].resp.transport = "nil"
                       /\ inv[k].resp.code = 200
              /\ (inv[k].log[Len(inv[k].log)].note = "POST"
                    /\ inv[k].resp.transport = "nil" /\ inv[k].resp.code # 200)
                   => inv[k].result
                        = "error registering cluster, status: " \o inv[k].resp.status
              /\ inv[k].resp.transport # "nil"
                   => inv[k].result = "error sending request: " \o inv[k].resp.transport

C18_Witness ==
    \E k \in Keys :
        /\ Registered(k)
        /\ inv[k].log[Len(inv[k].log)].note = "POST"
        /\ inv[k].resp.code = 201
        /\ inv[k].result = "error registering cluster, status: 201 Created"

(***************************************************************************)
(* C19: RegisterCluster validates the kubeconfig before it contacts the    *)
(* remote API: with a malformed kubeconfig it returns an error and sends   *)
(* no request, and the POST is sent only when the validation succeeded.    *)
(***************************************************************************)
C19_ValidatesBeforePost ==
    \A k \in Keys :
        \A i \in Events(k, "RegisterCluster") :
            /\ inv[k].log[i].note = "POST" <=> KubeConfigLoads(inv[k].mgr.KubeConfig)
            /\ ~KubeConfigLoads(inv[k].mgr.KubeConfig)
                  => /\ inv[k].log[i].err = "error loading kubeconfig: invalid"
                     /\ inv[k].resp = NoResponse

C19_Witness ==
    \E k \in Keys :
        /\ Registered(k)
        /\ inv[k].mgr.KubeConfig = "{not a kubeconfig"
        /\ inv[k].result = "error loading kubeconfig: invalid"
        /\ inv[k].log[Len(inv[k].log)] =
              Ev("RegisterCluster", "ArgoCD", "error loading kubeconfig: invalid", "")

(***************************************************************************)
(* C20: a manager built without error from a Cluster with control-plane    *)
(* host h, port p and name n and from kubeconfig bytes k has Server equal  *)
(* to h, ":" and the decimal text of p, Name n and KubeConfig k; host      *)
(* "Host" and port 80 give "Host:80".                                      *)
(***************************************************************************)
Built(k) ==
    /\ inv[k].pc \in {"api.built", "api.done"}
    /\ inv[k].log[1] = Ev("Get", "Secret", "nil", "token")

C20_ManagerFields ==
    \A k \in Keys :
        Built(k)
           => /\ inv[k].mgr.Server
                   = inv[k].clusterAPI.host \o ":" \o PortText[inv[k].clusterAPI.port]
              /\ inv[k].mgr.Name = inv[k].clusterAPI.name
              /\ inv[k].mgr.KubeConfig = inv[k].kubeconfig
              /\ (inv[k].clusterAPI.host = "Host" /\ inv[k].clusterAPI.port = 80)
                   => inv[k].mgr.Server = "Host:80"

C20_Witness ==
    \E k \in Keys :
        /\ Built(k) /\ inv[k].pc = "api.built"
        /\ inv[k].clusterAPI.name = "test"
        /\ inv[k].clusterAPI.host = "Host" /\ inv[k].clusterAPI.port = 80
        /\ inv[k].kubeconfig = MockKubeConfig
        /\ inv[k].mgr.Server = "Host:80"
        /\ inv[k].mgr.Name = "test"
        /\ inv[k].mgr.KubeConfig = MockKubeConfig
        /\ inv[k].mgr.Token = "token-test"

(***************************************************************************)
(* C21: NewAPIManagerWithCluster succeeds exactly when the token Secret    *)
(* exists at the configured namespace and name, has the field              *)
(* "admin.password" and that field is valid base64; the Token is then the  *)
(* decoding of the field (base64 of "token-test" gives "token-test"), and  *)
(* each of the three failures makes it return an error.                    *)
(***************************************************************************)
\* the valid base64 texts among the inputs, with what they encode
TokenText == ("dG9rZW4tdGVzdA==" :> "token-test") @@ ("dG9r" :> "tok")

Configured(name, default) == IF name \in DOMAIN env THEN env[name] ELSE default

ConfiguredSecret ==
    secrets[[namespace |-> Configured("ARGOCD_NAMESPACE", "argocd"),
             name |-> Configured("ARGOCD_SECRET_NAME", "argocd-secret")]]

Constructed(k) == inv[k].pc \in {"api.built", "api.done"}

C21_ConstructionIffToken ==
    \A k \in Keys :
        Constructed(k)
           => LET err == inv[k].log[1].err
                  secret == ConfiguredSecret IN
              /\ err = "nil"
                   <=> /\ secret.present
                       /\ "admin.password" \in DOMAIN secret.data
                       /\ secret.data["admin.password"] \in DOMAIN TokenText
              /\ err = "nil"
                   => inv[k].mgr.Token = TokenText[secret.data["admin.password"]]
              /\ ~secret.present => err = "error fetching secret: NotFound"
              /\ (secret.present /\ "admin.password" \notin DOMAIN secret.data)
                   => err = "admin.password not found in secret"

C21_Witness ==
    \E k \in Keys :
        /\ Constructed(k) /\ inv[k].log[1].err = "nil"
        /\ ConfiguredSecret.data["admin.password"] = "dG9rZW4tdGVzdA=="
        /\ inv[k].mgr.Token = "token-test"

(***************************************************************************)
(* C22: the namespace of the token Secret, its name and the API endpoint   *)
(* are "argocd", "argocd-secret" and "https://argocd-api.example.com" when *)
(* the environment variable of each is not set, and the value of the       *)
(* variable when it is set; the token Secret is read at that namespace and *)
(* name and nowhere else.                                                  *)
(***************************************************************************)
C22_TargetCoordinates ==
    \A k \in Keys :
        Constructed(k)
           => /\ inv[k].mgr.Endpoint
                   = Configured("ARGOAPI_ENDPOINT", "https://argocd-api.example.com")
              /\ inv[k].log[1].err = "error fetching secret: NotFound"
                   <=> ~ConfiguredSecret.present
              /\ inv[k].log[1].err = "nil"
                   => /\ ConfiguredSecret.present
                      /\ inv[k].mgr.Token
                           = TokenText[ConfiguredSecret.data["admin.password"]]

C22_Witness ==
    \E k \in Keys :
        /\ Constructed(k) /\ inv[k].log[1].err = "nil"
        /\ DOMAIN env = {"ARGOCD_NAMESPACE", "ARGOCD_SECRET_NAME", "ARGOAPI_ENDPOINT"}
        /\ secrets[[namespace |-> "argo-system", name |-> "argo-token"]].present
        /\ ~secrets[ArgoSecretKey].present
        /\ inv[k].mgr.Endpoint = "https://argocd.internal:8443"
        /\ inv[k].mgr.Token = "tok"

(***************************************************************************)
(* The end-to-end scenario: the namespace of the workload cluster holds    *)
(* its kubeconfig in the Secret "<cluster-name>-kubeconfig", the Cluster   *)
(* is then created, and the operator reconciles it.  The token Secret is   *)
(* in place at the start; it and the clock are free afterwards.  The steps *)
(* of Reconcile listed are those this scenario reaches.                    *)
(***************************************************************************)
KubeconfigSecretKey(k) ==
    [namespace |-> k.namespace, name |-> k.name \o "-kubeconfig"]

InitE2E ==
    /\ clusters = {}
    /\ registers = {}
    /\ now = 0
    /\ directClient \in BOOLEAN
    /\ hasRecorder = TRUE
    /\ env = NoData
    /\ Log = NoKey
    /\ secrets = [sk \in SecretKeys \cup {KubeconfigSecretKey(k) : k \in Keys} |->
                     IF sk = ArgoSecretKey
                     THEN [present |-> TRUE,
                           data |-> ("admin.password" :> "dG9rZW4tdGVzdA==")]
                     ELSE IF sk \in Keys THEN NoSecret
                     ELSE [present |-> TRUE,
                           data |-> ("kubeconfig" :> MockKubeConfig)]]
    /\ inv = [k \in Keys |-> IdleFrame]
    /\ prev = [k \in Keys |-> "none"]

E2ESteps(k) ==
    \/ Reconcile(k)
    \/ GetRegisterOrCreate(k)
    \/ createRegisterCR(k)
    \/ GetCreatedRegister(k)
    \/ getClusterKubeConfigFromSecret(k)
    \/ KubeConfigErrorGet(k)
    \/ KubeConfigErrorStatus(k)
    \/ Finish(k)

NextE2E ==
    \/ \E k \in Keys : Quiescent /\ CreateCluster(k)
    \/ Quiescent /\ ApplySecret(ArgoSecretKey)
    \/ Quiescent /\ DeleteSecret(ArgoSecretKey)
    \/ Quiescent /\ Tick
    \/ \E k \in Keys : E2ESteps(k)

SpecE2E == InitE2E /\ [][NextE2E]_vars /\ WF_vars(\E k \in Keys : E2ESteps(k))

(***************************************************************************)
(* C23: when a Cluster is created in a namespace that holds its kubeconfig *)
(* in the Secret "<cluster-name>-kubeconfig" (field "kubeconfig"), the     *)
(* operator creates the Register of the Cluster and the last condition of  *)
(* its status is eventually of type Available.                             *)
(***************************************************************************)
LatestIsAvailable(k) ==
    /\ GetRegister(k).err = "nil"
    /\ StoredConditions(k) # <<>>
    /\ StoredConditions(k)[Len(StoredConditions(k))].type = ConditionAvailable

C23_E2ERegisterAvailable ==
    \A k \in Keys :
        (/\ GetCluster(k).err = "nil"
         /\ secrets[KubeconfigSecretKey(k)].present
         /\ "kubeconfig" \in DOMAIN secrets[KubeconfigSecretKey(k)].data)
           ~> LatestIsAvailable(k)

(***************************************************************************)
(* C24: the body of the Register request has exactly the four top-level    *)
(* keys server, name, kubeconfig and config; server and name are the       *)
(* manager's Server and Name, kubeconfig is the manager's KubeConfig (as   *)
(* the base64 text json.Marshal writes for bytes), config.bearerToken is   *)
(* its Token, and the Authorization header is "Bearer " followed by the    *)
(* same Token.                                                             *)
(***************************************************************************)
Posted(k) ==
    /\ inv[k].pc = "api.done"
    /\ inv[k].log[Len(inv[k].log)].note = "POST"

C24_RegisterPayload ==
    \A k \in Keys :
        Posted(k)
           => /\ inv[k].request.method = "POST"
              /\ inv[k].request.url = inv[k].mgr.Endpoint \o "/api/v1/clusters"
              /\ DOMAIN inv[k].request.body
                   = {"server", "name", "kubeconfig", "config"}
              /\ inv[k].request.body.server = inv[k].mgr.Server
              /\ inv[k].request.body.name = inv[k].mgr.Name
              /\ inv[k].request.body.kubeconfig
                   = Base64Encode(inv[k].mgr.KubeConfig)
              /\ DOMAIN inv[k].request.body.config = {"bearerToken"}
              /\ inv[k].request.body.config.bearerToken = inv[k].mgr.Token
              /\ inv[k].request.header["Authorization"]
                   = "Bearer " \o inv[k].mgr.Token
              /\ inv[k].request.header["Content-Type"] = "application/json"

C24_Witness ==
    \E k \in Keys :
        /\ Posted(k)
        /\ inv[k].mgr.Server = "Host:80"
        /\ inv[k].mgr.Name = "test"
        /\ inv[k].mgr.Token = "tok"
        /\ inv[k].request.body.server = "Host:80"
        /\ inv[k].request.body.name = "test"
        /\ inv[k].request.body.kubeconfig = "YXBpVmVyc2lvbjogdjEga2luZDogQ29uZmln"
        /\ inv[k].request.body.config.bearerToken = "tok"
        /\ inv[k].request.header["Authorization"] = "Bearer tok"

(***************************************************************************)
(* C25: no step of Reconcile creates, modifies or deletes a Cluster or a   *)
(* Secret, whatever the path and the outcome; the only objects a step of   *)
(* Reconcile changes are Registers of the key it reconciles.               *)
(***************************************************************************)
ReconcileStepOf(k) == inv'[k] # inv[k]

C25_ReadsClustersAndSecrets ==
    [][\A k \in Keys :
          ReconcileStepOf(k)
             => /\ clusters' = clusters
                /\ secrets' = secrets
                /\ \A r \in (registers' \ registers) \cup (registers \ registers') :
                      KeyOf(r) = k]_vars

C25_Witness ==
    \E k \in Keys :
        /\ Returned(k)
        /\ Writes(k) # {}
        /\ Events(k, "Create") # {}
        /\ \E i \in Events(k, "Get") : inv[k].log[i] = Ev("Get", "Secret", "nil", "kubeconfig")
        /\ \E i \in Events(k, "Get") : inv[k].log[i] = Ev("Get", "Secret", "nil", "token")
        /\ GetCluster(k).err = "nil"
        /\ secrets[k].present
        /\ secrets[ArgoSecretKey].present
        /\ Stored(k) # {}

(***************************************************************************)
(* C26, as stated: every Update and every status update of the Register    *)
(* issued by Reconcile is immediately preceded by a fetch of that          *)
(* Register, with no other write, no Secret read and no remote call        *)
(* between the fetch and the write.                                        *)
(***************************************************************************)
Fetch == Ev("Get", "Register", "nil", "")

RecordWrites(k) == Events(k, "Update") \cup Events(k, "StatusUpdate")

C26_Original ==
    \A k \in Keys :
        \A i \in RecordWrites(k) : i > 1 /\ inv[k].log[i - 1] = Fetch

(***************************************************************************)
(* C26, amended: every Update of the Register (deletion mark, finalizer    *)
(* removal) is immediately preceded by a fetch of it; every status update  *)
(* is preceded in the same invocation by a fetch of it with no Create and  *)
(* no Update of the Register between that fetch and the status update      *)
(* (remote calls, Secret reads and other status updates may lie between).  *)
(***************************************************************************)
C26_FetchBeforeWrite ==
    \A k \in Keys :
        /\ \A i \in Events(k, "Update") : i > 1 /\ inv[k].log[i - 1] = Fetch
        /\ \A i \in Events(k, "StatusUpdate") :
              \E j \in 1..(i - 1) :
                  /\ inv[k].log[j] = Fetch
                  /\ \A m \in (j + 1)..(i - 1) :
                        inv[k].log[m].op \notin {"Create", "Update"}

C26_Witness ==
    \E k \in Keys :
        /\ Returned(k)
        /\ \E i \in Events(k, "Update") :
              /\ inv[k].log[i] = Ev("Update", "Register", "nil", "RemoveFinalizer")
              /\ inv[k].log[i - 1] = Fetch
        /\ \E i \in Events(k, "StatusUpdate") :
              /\ inv[k].log[i - 1].op \in {"Event", "UnRegisterCluster"}
              /\ inv[k].log[i].err = "nil"

(***************************************************************************)
(* Two workers.  The controller hands two distinct request keys to two     *)
(* workers, which call Reconcile on the one RegisterReconciler at the same *)
(* time; the steps of the two invocations interleave.  Both Clusters exist *)
(* with their kubeconfig Secrets, and the token Secret is in place; the    *)
(* steps listed are those of the registration path.                        *)
(***************************************************************************)
OtherKey == [namespace |-> "other-cluster", name |-> "other-cluster"]

WorkerKeys == Keys \cup {OtherKey}

InitWorkers ==
    /\ clusters = {Cluster(k) : k \in WorkerKeys}
    /\ registers = {}
    /\ now = 0
    /\ directClient \in BOOLEAN
    /\ hasRecorder = TRUE
    /\ env = NoData
    /\ Log = NoKey
    /\ secrets = [sk \in SecretKeys \cup WorkerKeys |->
                     IF sk = ArgoSecretKey
                     THEN [present |-> TRUE,
                           data |-> ("admin.password" :> "dG9rZW4tdGVzdA==")]
                     ELSE [present |-> TRUE,
                           data |-> ("kubeconfig" :> MockKubeConfig)]]
    /\ inv = [k \in WorkerKeys |-> IdleFrame]
    /\ prev = [k \in WorkerKeys |-> "none"]

WorkerSteps(k) ==
    \/ Reconcile(k)
    \/ GetRegisterOrCreate(k)
    \/ createRegisterCR(k)
    \/ GetCreatedRegister(k)
    \/ getClusterKubeConfigFromSecret(k)
    \/ handleIntegrationWithArgoCDAPI(k)
    \/ Dispatch(k)
    \/ RegistrationGet(k)
    \/ RegisterStep(k)
    \/ RegisterErrorStatus(k)
    \/ AvailableStatus(k)
    \/ Finish(k)

NextWorkers == \E k \in WorkerKeys : WorkerSteps(k)

SpecWorkers == InitWorkers /\ [][NextWorkers]_vars

(***************************************************************************)
(* C27: two invocations of Reconcile for distinct keys that run at the     *)
(* same time share no mutable state; in particular each invocation uses    *)
(* its own logger, as it does when the two run one after the other.        *)
(***************************************************************************)
C27_OwnLogger ==
    \A k \in WorkerKeys :
        inv[k].logger \in {NoKey, k}

(***************************************************************************)
(* C28: a Register created by Reconcile carries the finalizer from the     *)
(* moment it is stored: while the invocation that created it runs, and     *)
(* when it has returned, the stored Register holds registerCRFinalizer.    *)
(***************************************************************************)
C28_CreatedCarriesFinalizer ==
    \A k \in Keys :
        (Done(k, "Create") # {} /\ GetRegister(k).err = "nil")
           => registerCRFinalizer \in GetRegister(k).obj.finalizers

(***************************************************************************)
(* C29: the manager that handleFinalizer unregisters with carries the      *)
(* Server ("host:port") and the Name of the Cluster of the request key,    *)
(* which are those the cluster is registered under, also when the Cluster  *)
(* no longer exists.                                                       *)
(***************************************************************************)
C29_FinalizeSameIdentity ==
    \A k \in Keys :
        Events(k, "UnRegisterCluster") # {}
           => /\ inv[k].mgr.Server
                   = Cluster(k).host \o ":" \o PortText[Cluster(k).port]
              /\ inv[k].mgr.Name = Cluster(k).name

(***************************************************************************)
(* C30: after a Reconcile that ends with Available=True written to the     *)
(* Register, the stored Register holds no Degraded condition with status   *)
(* True, also when an earlier Reconcile, or an earlier step of the same    *)
(* one, set Degraded.                                                      *)
(***************************************************************************)
EndedAvailable(k) ==
    /\ Returned(k)
    /\ AvailableWrites(k) # {}
    /\ GetRegister(k).err = "nil"
    /\ HasStoredCondition(k, ConditionAvailable)
    /\ StoredCondition(k, ConditionAvailable).status = "True"

C30_AvailableExcludesDegraded ==
    \A k \in Keys :
        EndedAvailable(k)
           => ~ (/\ HasStoredCondition(k, ConditionDegraded)
                 /\ StoredCondition(k, ConditionDegraded).status = "True")

(***************************************************************************)
(* C32: when the construction of the APIManager fails (token Secret        *)
(* missing, field missing, or field not base64), that Reconcile issues no  *)
(* RegisterCluster and no UnRegisterCluster call and does not remove the   *)
(* finalizer.                                                              *)
(***************************************************************************)
ManagerFailed(k) ==
    \E i \in Failed(k, "Get") :
        inv[k].log[i].target = "Secret" /\ inv[k].log[i].note = "token"

PastRegistrationStep(k) ==
    /\ OnActivePath(k)
    /\ \E i \in Done(k, "Get") :
          /\ inv[k].log[i].target = "Register"
          /\ i > 1 /\ inv[k].log[i - 1].op = "IsClusterRegistered"
    /\ inv[k].pc # "L240"

FailedFetches(k) ==
    {i \in Events(k, "Get") :
        /\ inv[k].log[i].target \in {"Cluster", "Register"}
        /\ inv[k].log[i].err \notin {"nil", "NotFound"}}

StoredAsAtStart(k) ==
    Stored(k) = IF inv[k].start.register THEN {inv[k].start.obj} ELSE {}

C37_Original ==
    \A k \in Keys :
        \A i \in FailedFetches(k) :
            /\ Returned(k)
            /\ inv[k].result = inv[k].log[i].err
            /\ Writes(k) = {}
            /\ RemoteCalls(k) = {}

(***************************************************************************)
(* C37, amended: when a fetch of the Cluster or of the Register fails with *)
(* an error other than NotFound, Reconcile returns that error and the      *)
(* failed fetch is the last thing the invocation does: no write and no     *)
(* remote call follows it.  When the failed fetch is the fetch of the      *)
(* Cluster or the first fetch of the Register, the invocation has written  *)
(* nothing, made no remote call, and the stored Register is as it was at   *)
(* the start.  What the invocation wrote before a later fetch fails stays. *)
(***************************************************************************)
C37_FailedFetchStops ==
    \A k \in Keys :
        \A i \in FailedFetches(k) :
            /\ Returned(k)
            /\ inv[k].result = inv[k].log[i].err
            /\ i = Len(inv[k].log)
            /\ i <= 2 => /\ Writes(k) = {}
                         /\ RemoteCalls(k) = {}
                         /\ StoredAsAtStart(k)

C37_Witness ==
    \E k \in Keys :
        /\ Returned(k)
        /\ inv[k].result = "StoreError"
        /\ FailedFetches(k) = {2}
        /\ inv[k].log[2].target = "Register"
        /\ inv[k].start.register
        /\ StoredAsAtStart(k)

(***************************************************************************)
(* The two ways the reconciler is built: by the manager, with the cached   *)
(* client and an event recorder, and by the controller test, with the      *)
(* direct client and a scheme only (the Recorder field is nil).            *)
(***************************************************************************)
InitBuilds ==
    /\ clusters = {}
    /\ secrets = [sk \in SecretKeys |-> NoSecret]
    /\ registers = {}
    /\ now = 0
    /\ directClient \in BOOLEAN
    /\ hasRecorder = ~directClient
    /\ env = NoData
    /\ Log = NoKey
    /\ inv = [k \in Keys |-> IdleFrame]
    /\ prev = [k \in Keys |-> "none"]

SpecBuilds == InitBuilds /\ [][Next]_vars

(***************************************************************************)
(* C36: every invocation of Reconcile returns to its caller with success   *)
(* or an error and never aborts, on the Finalizing path after a successful *)
(* UnRegisterCluster too, also when the reconciler was built without an    *)
(* event recorder.                                                         *)
(***************************************************************************)
C36_NeverAborts ==
    \A k \in Keys :
        Returned(k) => inv[k].result # "panic: nil pointer dereference"

(***************************************************************************)
(* C35: Reconcile is idempotent on the Register in the steady Active       *)
(* state.  A Reconcile that finds the Cluster, both Secrets usable and a   *)
(* Register that an earlier Reconcile has made Available, and whose        *)
(* RegisterCluster call succeeds, leaves the stored Register exactly as it *)
(* found it: owner references, finalizers, deletion marker, and the type,  *)
(* status, reason, message and lastTransitionTime of every condition.      *)
(***************************************************************************)
SteadyActive(k) ==
    /\ Succeeded(k)
    /\ inv[k].start.cluster /\ inv[k].start.register
    /\ Failed(k, "Get") = {}
    /\ Done(k, "RegisterCluster") # {}
    /\ AvailableWrites(k) # {}
    /\ prev[k] = "reconciled"
    /\ FindStatusCondition(inv[k].start.obj.conditions, ConditionAvailable) # 0

C35_SteadyReconcileIdempotent ==
    \A k \in Keys : SteadyActive(k) => Stored(k) = {inv[k].start.obj}

C35_Witness ==
    \E k \in Keys :
        /\ SteadyActive(k)
        /\ Stored(k) = {inv[k].start.obj}
        /\ Len(StoredConditions(k)) >= 2
        /\ StoredCondition(k, ConditionAvailable).lastTransitionTime < now

(***************************************************************************)
(* External writes during a Reconcile.  A user, another controller or the  *)
(* garbage collector deletes the Register while an invocation is between   *)
(* two of its fetches of it.  The external write falls where the next      *)
(* access of the invocation to the Register is a fetch, so no write of the *)
(* invocation meets a copy the store would reject as out of date.  Both    *)
(* Secrets are in place; the steps listed are those these runs reach.      *)
(***************************************************************************)
InitRace ==
    /\ clusters = {}
    /\ registers = {}
    /\ now = 0
    /\ directClient \in BOOLEAN
    /\ hasRecorder = TRUE
    /\ env = NoData
    /\ Log = NoKey
    /\ secrets = [sk \in SecretKeys |->
                     IF sk = ArgoSecretKey
                     THEN [present |-> TRUE,
                           data |-> ("admin.password" :> "dG9rZW4tdGVzdA==")]
                     ELSE [present |-> TRUE,
                           data |-> ("kubeconfig" :> MockKubeConfig)]]
    /\ inv = [k \in Keys |-> IdleFrame]
    /\ prev = [k \in Keys |-> "none"]

RaceWindow(k) == inv[k].pc \in {"L142", "L151", "L183", "L201", "L165"}

RaceSteps(k) ==
    \/ Reconcile(k)
    \/ GetRegisterOfDeletedCluster(k)
    \/ SetDeletionTimestamp(k)
    \/ GetRegisterOrCreate(k)
    \/ createRegisterCR(k)
    \/ GetCreatedRegister(k)
    \/ getClusterKubeConfigFromSecret(k)
    \/ handleIntegrationWithArgoCDAPI(k)
    \/ Dispatch(k)
    \/ FinalizingStatus(k)
    \/ FinalizingGet(k)
    \/ doFinalizerOperations(k)
    \/ UnregisteredStatus(k)
    \/ RemoveFinalizerGet(k)
    \/ RemoveFinalizerUpdate(k)
    \/ RegistrationGet(k)
    \/ RegisterStep(k)
    \/ RegisterErrorStatus(k)
    \/ AvailableStatus(k)
    \/ Finish(k)

NextRace ==
    \/ \E k \in Keys : Quiescent /\ CreateCluster(k)
    \/ \E k \in Keys : Quiescent /\ DeleteCluster(k)
    \/ \E k \in Keys : Quiescent /\ AddFinalizer(k)
    \/ Quiescent /\ Tick
    \/ \E k \in Keys : (Quiescent \/ RaceWindow(k)) /\ DeleteRegister(k)
    \/ \E k \in Keys : (Quiescent \/ RaceWindow(k)) /\ CollectRegister(k)
    \/ \E k \in Keys : RaceSteps(k)

SpecRace == InitRace /\ [][NextRace]_vars

(***************************************************************************)
(* C31: Reconcile never calls RegisterCluster for, and never writes        *)
(* Available=True to, a Register that carries a deletion marker in the     *)
(* store at that moment, also when the marker was set by somebody else     *)
(* between two fetches of the invocation.                                  *)
(***************************************************************************)
MarkedInStore(k) ==
    GetRegister(k).err = "nil" /\ GetRegister(k).obj.deletionTimestamp # NoTime

CallsRegister(k) == inv[k].pc = "L240" /\ inv'[k].pc # "L240"

WritesAvailable(k) ==
    /\ inv[k].pc = "L255" /\ inv'[k].pc # "L255"
    /\ inv'[k].log[Len(inv'[k].log)]
          = Ev("StatusUpdate", "Register", "nil", "Available")

C31_NoRegisterOfMarked ==
    [][\A k \in Keys :
          (CallsRegister(k) \/ WritesAvailable(k)) => ~MarkedInStore(k)]_vars

(***************************************************************************)
(* C33: an invocation of Reconcile that found the Cluster absent neither   *)
(* creates nor tries to create a Register, also when the Register it found *)
(* at its first fetch is gone at its second.                               *)
(***************************************************************************)
ObservedClusterAbsent(k) ==
    /\ Len(inv[k].log) >= 1
    /\ inv[k].log[1] = Ev("Get", "Cluster", "NotFound", "")

C33_NoCreateWithoutCluster ==
    \A k \in Keys : ObservedClusterAbsent(k) => Events(k, "Create") = {}

=============================================================================
